---- MODULE Spec2Model ----
(***************************************************************************)
(* The agent decision loop and verdict engine of the Fara E2E test suite:  *)
(* FaraAgent.run_test_case (src/agent.py) and the exception wrapper        *)
(* E2ETestRunner.run_task (src/test_runner.py).                            *)
(*                                                                         *)
(* Strings are abstracted by the features the code's regular expressions   *)
(* and substring tests read from them: a URL is one of a few literal URLs  *)
(* (lower-casing and the error-term test are tabulated on them), a page    *)
(* body is the set of quoted texts it contains (case-insensitively), a     *)
(* task step or criterion is the record of what the extractors find in it. *)
(***************************************************************************)
EXTENDS Integers, Sequences, FiniteSets, TLC

\* ---------------------------------------------------------------- bounds
\* TestCase.max_rounds of the modelled test cases.
MaxRounds == 3
\* TestCase.max_rounds of the test case of the loop scenarios.
LoopRounds == 5
RingRounds == 22
\* run_parallel: max_workers, and the rounds an agent of the pool may take.
MaxWorkers == 2
PoolRounds == 2

\* ------------------------------------------------------ program constants
\* _bucket_coord: the grid of the click/type buckets.
BucketSize == 20
\* run_test_case: the repeat-action streak that aborts the run.
StreakLimit == 3
\* _detect_loop_blocker: clicks in one bucket that abort the run.
ClickLimit == 4
\* _detect_loop_blocker: type actions in one bucket that abort the run.
TypeLimit == 3
\* run_test_case: a URL visited this often with a scoped text missing aborts.
VisitLimit == 3
\* run_test_case: the transition list keeps this many entries.
TransitionCap == 20
\* _check_auto_pass: the fallback looks at this many most recent transitions.
FallbackWindow == 2

\* ------------------------------------------------------------ vocabulary
None == "none"
NoCoord == << >>

U_LOGIN == "https://x/login"
U_DONE == "https://x/done"
U_DONE_UC == "https://x/Done"
U_404 == "https://x/404"
U_HOME == "https://x/home"
URLS == {U_LOGIN, U_DONE, U_DONE_UC, U_404, U_HOME}

\* str.lower() on the strings of the model.
Lower(s) ==
    CASE s = U_DONE_UC -> U_DONE
      [] s = "Confirm" -> "confirm"
      [] s = "Welcome" -> "welcome"
      [] s = "Thanks" -> "thanks"
      [] s = "SUCCESS" -> "success"
      [] s = "Server Error" -> "server error"
      [] s = "Done" -> "done"
      [] s = "Login" -> "login"
      [] OTHER -> s

\* _normalize_for_compare: get_trimmed_url(url or "", 300).lower(); every URL of
\* the model is shorter than 300 characters, so the trim keeps it whole.
NormalizeForCompare(url) == IF url = None THEN "" ELSE Lower(url)

\* any(term in s for term in error_terms), s a lower-cased URL or title.
HasErrorTerm(s) == s \in {U_404, "server error"}

\* "login" in url_lower
HasLogin(s) == s = U_LOGIN

\* The pages the browser can show: URL, title, and the quoted texts the body
\* holds, plus whether the body holds "404"/"not found".
Text(b, nf) == [texts |-> b, notfound |-> nf]
Page(u, t, b, nf) == [url |-> u, title |-> t, text |-> Text(b, nf)]
Pages ==
    { Page(U_LOGIN, "Login", {}, FALSE),
      Page(U_DONE, "Done", {"Welcome"}, FALSE),
      Page(U_DONE_UC, "Done", {}, FALSE),
      Page(U_404, "Done", {}, FALSE),
      Page(U_HOME, "Server Error", {}, FALSE) }

\* expected.lower() in page_text.lower()
TextIn(expected, page_text) == \E t \in page_text.texts : Lower(t) = Lower(expected)

\* ------------------------------------------------------------ test cases
\* An objective step: "click" in step.lower(), the first quoted text
\* (_extract_expected_text), the URL after on/open/visit/at/navigate to
\* (_scoped_step_url), _is_verify_step, _looks_like_page_content_assertion.
Step(c, q, u, v, a) == [click |-> c, quoted |-> q, scoped_url |-> u, verify |-> v, content |-> a]
\* A pass criterion: the URL re.search(r"https?://\S+") finds, the first quoted
\* text, and whether it holds one of "browser is at", "is at", "returns to", "at ".
Crit(u, q, p) == [url |-> u, quoted |-> q, is_at |-> p]

\* Click "Confirm"
StepClickConfirm == Step(TRUE, "Confirm", None, TRUE, FALSE)
\* Page contains "Welcome" at https://x/done
CritPair == Crit(U_DONE, "Welcome", TRUE)
\* Browser is at https://x/done
CritFinal == Crit(U_DONE, None, TRUE)

Task(id, steps, pass, fl, n) ==
    [id |-> id, objective_steps |-> steps, pass_criteria |-> pass,
     fail_login |-> fl, start_url |-> U_LOGIN, max_rounds |-> n,
     skip |-> FALSE, skip_reason |-> None]

TaskPairOnly == Task("pair_only", <<StepClickConfirm>>, <<CritPair>>, FALSE, MaxRounds)
TaskPairFinal == Task("pair_final", <<StepClickConfirm>>, <<CritPair, CritFinal>>, FALSE, MaxRounds)
TaskFinalOnly == Task("final_only", <<StepClickConfirm>>, <<CritFinal>>, TRUE, MaxRounds)
TaskLong == Task("long", <<StepClickConfirm>>, <<CritPair>>, FALSE, LoopRounds)
\* A task with rounds enough to record more transitions than the list keeps.
TaskRing == Task("ring", <<StepClickConfirm>>, <<CritPair>>, FALSE, RingRounds)
\* A test case marked skip: true, without a skip_reason.
TaskSkipped == [TaskPairOnly EXCEPT !.id = "skipped", !.skip = TRUE]
\* Page contains "Welcome" at https://x/done; page contains "Thanks" at https://x/done
TaskTwoTexts ==
    Task("two_texts", <<StepClickConfirm>>, <<CritPair, Crit(U_DONE, "Thanks", TRUE)>>,
         FALSE, MaxRounds)
\* Click the button: a step that quotes no click target; both criteria.
TaskNoTarget ==
    Task("no_target", <<Step(TRUE, None, None, FALSE, FALSE)>>, <<CritPair, CritFinal>>,
         FALSE, MaxRounds)
Tasks == {TaskPairOnly, TaskPairFinal, TaskFinalOnly, TaskTwoTexts, TaskNoTarget, TaskSkipped}

\* ------------------------------------------------------- pure functions
\* Python's round(): to the nearest integer, ties to the even one; x >= 0.
RoundHalfEven(x, d) ==
    LET q == x \div d
        r == x % d
    IN  IF 2 * r < d THEN q
        ELSE IF 2 * r > d THEN q + 1
        ELSE IF q % 2 = 0 THEN q ELSE q + 1

\* _bucket_coord
BucketCoord(coord) ==
    << RoundHalfEven(coord[1], BucketSize) * BucketSize,
       RoundHalfEven(coord[2], BucketSize) * BucketSize >>

\* A quotient of two integers, kept exact: num / den.
Frac(n, d) == [num |-> n, den |-> d]

ScaleCoordsByWidth(coords, im_size, viewport) ==
    IF im_size = << >> THEN << Frac(coords[1], 1), Frac(coords[2], 1) >>
    ELSE << Frac(coords[1] * viewport[1], im_size[1]),
            Frac(coords[2] * viewport[1], im_size[1]) >>
\* _convert_resized_coords_to_viewport, its result as exact quotients:
\* coords[0] * (viewport_width / im_w), coords[1] * (viewport_height / im_h);
\* im_size is << >> when no image size is recorded, else <<w, h>>.
ScaleCoords(coords, im_size, viewport) ==
    IF im_size = << >> THEN << Frac(coords[1], 1), Frac(coords[2], 1) >>
    ELSE << Frac(coords[1] * viewport[1], im_size[1]),
            Frac(coords[2] * viewport[2], im_size[2]) >>

\* _convert_resized_coords_to_viewport in the runs of the model, where the
\* viewport is a whole multiple of the image and the result a whole number.
ConvertResizedCoordsToViewport(coords, im_size, viewport) ==
    LET scaled == ScaleCoords(coords, im_size, viewport)
    IN  << scaled[1].num \div scaled[1].den, scaled[2].num \div scaled[2].den >>

DedupeKeepsAll(s) == s
\* The elements of a sequence without repetitions, first occurrences in order.
RECURSIVE Dedupe(_)
Dedupe(s) ==
    IF s = << >> THEN << >>
    ELSE LET init == Dedupe(SubSeq(s, 1, Len(s) - 1))
             last == s[Len(s)]
         IN  IF \E i \in 1..Len(init) : init[i] = last THEN init ELSE Append(init, last)

SeqFilterMap(s, Keep(_), Val(_)) ==
    LET F[i \in 0..Len(s)] ==
            IF i = 0 THEN << >>
            ELSE IF Keep(s[i]) THEN Append(F[i - 1], Val(s[i])) ELSE F[i - 1]
    IN  F[Len(s)]

\* _extract_scoped_expectations_for_url
ExtractScopedExpectationsForUrl(test_case, url) ==
    LET url_norm == NormalizeForCompare(url)
        StepKeep(st) == /\ st.scoped_url # None
                        /\ NormalizeForCompare(st.scoped_url) = url_norm
                        /\ st.verify /\ st.content
                        /\ st.quoted # None
        CritKeep(cr) == /\ cr.url # None
                        /\ NormalizeForCompare(cr.url) = url_norm
                        /\ cr.quoted # None
        Q(x) == x.quoted
    IN  Dedupe(SeqFilterMap(test_case.objective_steps, StepKeep, Q)
               \o SeqFilterMap(test_case.pass_criteria, CritKeep, Q))

\* _extract_click_target_texts
ExtractClickTargetTexts(test_case) ==
    LET Keep(st) == st.click /\ st.quoted # None
        Q(x) == x.quoted
    IN  SeqFilterMap(test_case.objective_steps, Keep, Q)

\* A reason or an action result: a message and what is formatted into it.
R(msg, arg) == [msg |-> msg, arg |-> arg]
NoReason == R("", "")

MaxOf(f) == IF DOMAIN f = {} THEN 0
            ELSE CHOOSE m \in {f[k] : k \in DOMAIN f} : \A k \in DOMAIN f : f[k] <= m

\* dict.get(key, 0) + 1 stored back
Incr(f, k) ==
    [x \in DOMAIN f \cup {k} |-> IF x = k THEN (IF k \in DOMAIN f THEN f[k] ELSE 0) + 1 ELSE f[x]]
Get(f, k) == IF k \in DOMAIN f THEN f[k] ELSE 0
Empty == [x \in {} |-> 0]

\* _allowed_actions
AllowedActions ==
    {"key", "type", "mouse_move", "left_click", "scroll", "visit_url",
     "web_search", "history_back", "wait", "terminate"}

\* _is_action_allowed: str(action_args.get("action") or "") in the allow-list;
\* the None of a response that does not parse is the record with action "".
IsActionAllowed(action_args) == action_args.action \in AllowedActions

\* The pairs (normalized URL, quoted text) of the pass criteria that hold both.
RequiredPairs(test_case) ==
    LET IsPair(cr) == cr.url # None /\ cr.quoted # None
        PairOf(cr) == <<NormalizeForCompare(cr.url), cr.quoted>>
    IN  SeqFilterMap(test_case.pass_criteria, IsPair, PairOf)

\* The final URL of the pass criteria: that of the last criterion with a URL,
\* no quoted text and one of the "is at" phrases; None without one.
FinalUrlNorm(test_case) ==
    LET IsFinal(cr) == cr.url # None /\ cr.quoted = None /\ cr.is_at
        UrlOf(cr) == NormalizeForCompare(cr.url)
        finals == SeqFilterMap(test_case.pass_criteria, IsFinal, UrlOf)
    IN  IF finals = << >> THEN None ELSE finals[Len(finals)]

RequiredPairsObservedByUrl(required_pairs, current_url, verified, last_text) ==
    LET observed == { <<NormalizeForCompare(verified[i][1]), verified[i][2]>> : i \in 1..Len(verified) }
    IN  \A i \in 1..Len(required_pairs) :
            \/ required_pairs[i] \in observed
            \/ NormalizeForCompare(current_url) = required_pairs[i][1]
\* Every required pair is among the verified expectations or holds of the
\* current page.
RequiredPairsObserved(required_pairs, current_url, verified, last_text) ==
    LET observed == { <<NormalizeForCompare(verified[i][1]), verified[i][2]>> : i \in 1..Len(verified) }
        PairOk(pr) == \/ pr \in observed
                      \/ /\ NormalizeForCompare(current_url) = pr[1]
                         /\ TextIn(pr[2], last_text)
    IN  \A i \in 1..Len(required_pairs) : PairOk(required_pairs[i])

ClickedOfCaseSensitive(tr) == IF tr.clicked_text = None THEN "" ELSE tr.clicked_text
\* clicked = (tr.get("clicked_text") or "").strip().lower()
ClickedOf(tr) == IF tr.clicked_text = None THEN "" ELSE Lower(tr.clicked_text)

ClickEvidenceAnyAction(test_case, final_url_norm, trans) ==
    LET click_targets == { Lower(ExtractClickTargetTexts(test_case)[i]) :
                             i \in 1..Len(ExtractClickTargetTexts(test_case)) }
        matches == { i \in 1..Len(trans) :
                       /\ trans[i].to = final_url_norm
                       /\ ClickedOf(trans[i]) # ""
                       /\ ClickedOf(trans[i]) \in click_targets }
        recent == { i \in 1..Len(trans) : i > Len(trans) - FallbackWindow }
        No == [pass |-> FALSE, reason |-> NoReason]
    IN  IF click_targets = {} THEN No
        ELSE IF matches # {} THEN
            [pass |-> TRUE,
             reason |-> R("All URL-scoped pass criteria satisfied and clicked '{}' navigated to final URL.",
                          ClickedOf(trans[CHOOSE j \in matches : \A k \in matches : k <= j]))]
        ELSE IF \E i \in recent : trans[i].to = final_url_norm THEN
            [pass |-> TRUE,
             reason |-> R("All URL-scoped pass criteria satisfied and a recent click navigated to the final URL.", "")]
        ELSE No
\* The evidence of a click-driven transition to the final URL: the latest
\* left_click transition to it whose clicked text is a click target, else a
\* left_click transition to it among the last two.
ClickEvidence(test_case, final_url_norm, trans) ==
    LET click_targets == { Lower(ExtractClickTargetTexts(test_case)[i]) :
                             i \in 1..Len(ExtractClickTargetTexts(test_case)) }
        Match(i) == /\ trans[i].to = final_url_norm
                    /\ trans[i].action = "left_click"
                    /\ ClickedOf(trans[i]) # ""
                    /\ ClickedOf(trans[i]) \in click_targets
        matches == { i \in 1..Len(trans) : Match(i) }
        recent == { i \in 1..Len(trans) : i > Len(trans) - FallbackWindow }
        Fallback(i) == trans[i].to = final_url_norm /\ trans[i].action = "left_click"
        No == [pass |-> FALSE, reason |-> NoReason]
    IN  IF click_targets = {} THEN No
        ELSE IF matches # {} THEN
            [pass |-> TRUE,
             reason |-> R("All URL-scoped pass criteria satisfied and clicked '{}' navigated to final URL.",
                          ClickedOf(trans[CHOOSE j \in matches : \A k \in matches : k <= j]))]
        ELSE IF \E i \in recent : Fallback(i) THEN
            [pass |-> TRUE,
             reason |-> R("All URL-scoped pass criteria satisfied and a recent click navigated to the final URL.", "")]
        ELSE No

\* _check_auto_pass
CheckAutoPass(test_case, current_url, verified, last_text, trans) ==
    LET No == [pass |-> FALSE, reason |-> NoReason]
    IN  IF test_case.pass_criteria = << >> THEN No
        ELSE IF ~RequiredPairsObserved(RequiredPairs(test_case), current_url, verified, last_text)
        THEN No
        ELSE IF FinalUrlNorm(test_case) = None THEN No
        ELSE IF NormalizeForCompare(current_url) # FinalUrlNorm(test_case) THEN No
        ELSE ClickEvidence(test_case, FinalUrlNorm(test_case), trans)

DetectLoopBlockerOffByOne(clicks, types) ==
    IF MaxOf(clicks) > ClickLimit
    THEN R("Loop detected: clicked the same region 4+ times without progress.", "")
    ELSE IF MaxOf(types) >= TypeLimit
    THEN R("Loop detected: typed in the same field 3+ times without progress.", "")
    ELSE NoReason
DetectLoopBlockerLateTypes(clicks, types) ==
    IF MaxOf(clicks) >= ClickLimit
    THEN R("Loop detected: clicked the same region 4+ times without progress.", "")
    ELSE IF MaxOf(types) > TypeLimit
    THEN R("Loop detected: typed in the same field 3+ times without progress.", "")
    ELSE NoReason
\* _detect_loop_blocker
DetectLoopBlocker(clicks, types) ==
    IF MaxOf(clicks) >= ClickLimit
    THEN R("Loop detected: clicked the same region 4+ times without progress.", "")
    ELSE IF MaxOf(types) >= TypeLimit
    THEN R("Loop detected: typed in the same field 3+ times without progress.", "")
    ELSE NoReason

\* _check_auto_verdict: start_url.rstrip("/") leaves the model's URLs unchanged.
CheckAutoVerdict(test_case, current_url, title, text) ==
    LET url_lower == Lower(current_url)
    IN  IF HasErrorTerm(url_lower) \/ HasErrorTerm(Lower(title))
        THEN R("Landed on an error/404 page.", "")
        ELSE IF text.notfound
        THEN R("Page body shows 404/not found.", "")
        ELSE IF /\ test_case.fail_login
                /\ HasLogin(url_lower)
                /\ test_case.start_url # None
                /\ url_lower = Lower(test_case.start_url)
        THEN R("Still on login page; fail criteria mention login.", "")
        ELSE NoReason

\* The first expectation scoped to the URL that the text lacks, in a sequence
\* of at most one element.
FirstMissing(test_case, current_url, text) ==
    LET exp == ExtractScopedExpectationsForUrl(test_case, current_url)
        miss == { i \in 1..Len(exp) : ~TextIn(exp[i], text) }
    IN  IF miss = {} THEN << >>
        ELSE << exp[CHOOSE i \in miss : \A j \in miss : i <= j] >>

CheckTextExpectationsAnyRound(test_case, current_url, text, changed) ==
    IF FirstMissing(test_case, current_url, text) = << >> THEN NoReason
    ELSE R("Expected text '{}' missing after navigation.",
           FirstMissing(test_case, current_url, text)[1])
\* _check_text_expectations
CheckTextExpectations(test_case, current_url, text, changed) ==
    IF ~changed THEN NoReason
    ELSE IF FirstMissing(test_case, current_url, text) = << >> THEN NoReason
    ELSE R("Expected text '{}' missing after navigation.",
           FirstMissing(test_case, current_url, text)[1])

\* ------------------------------------------------------- model responses
\* The pixels argument: absent, an integer, or a string that is no number.
NoPixels == [tag |-> "none", val |-> 0]
IntPixels(n) == [tag |-> "int", val |-> n]
BadPixels == [tag |-> "str", val |-> 0]

\* _action_signature: raises (ok = FALSE) when int(pixels) does.
ActionSignature(action_args, url, im_size, viewport) ==
    LET coord == action_args.coordinate
        bucket == IF Len(coord) = 2
                  THEN BucketCoord(ConvertResizedCoordsToViewport(coord, im_size, viewport))
                  ELSE << >>
        pixels == IF action_args.pixels.tag = "none" THEN << >> ELSE <<action_args.pixels.val>>
    IN  [ok |-> action_args.pixels.tag # "str",
         sig |-> [action |-> action_args.action, url |-> NormalizeForCompare(url),
                  bucket |-> bucket, pixels |-> pixels]]

StreakUpdateNoReset(sig, last_sig, streak) ==
    IF <<sig>> = last_sig THEN <<streak + 1, last_sig>> ELSE <<streak + 1, <<sig>>>>
\* The streak after an action with signature sig: <<streak, last signature>>.
StreakUpdate(sig, last_sig, streak) ==
    IF <<sig>> = last_sig THEN <<streak + 1, last_sig>> ELSE <<1, <<sig>>>>

\* What _parse_action returns for a response: the arguments of the tool call
\* (Python's None and a missing key are None, "" or << >> here).
Args(a, c, px, u, pe, lb, st, rs) ==
    [action |-> a, coordinate |-> c, pixels |-> px, url |-> u, press_enter |-> pe,
     label |-> lb, status |-> st, reason |-> rs, clicked_text |-> None]
Plain(a) == Args(a, NoCoord, NoPixels, None, FALSE, "", "", "")
\* _parse_action returned None
NoAction == Plain("")

\* Coordinates the model names, in the space of the prompt image.
CoordA == <<5, 5>>
CoordA2 == <<9, 5>>

Click(c, px) == Args("left_click", c, px, None, FALSE, "", "", "")
TypeAt(c, pe) == Args("type", c, NoPixels, None, pe, "", "", "")
Scroll(px) == Args("scroll", NoCoord, px, None, FALSE, "", "", "")
Terminate(st, rs) == Args("terminate", NoCoord, NoPixels, None, FALSE, "", st, rs)

\* The parsed responses the model gives in a run: allowed actions, an action
\* outside the allow-list, and text that does not parse.
VisitDone == Args("visit_url", NoCoord, NoPixels, U_DONE, FALSE, "", "", "")
Terminations ==
    { Terminate("success", "goal reached"), Terminate("SUCCESS", ""),
      Terminate("failure", ""), Terminate("", ""), Terminate(None, "") }
ActionChoices ==
    { Click(CoordA, NoPixels),
      TypeAt(CoordA, FALSE), TypeAt(NoCoord, TRUE),
      Scroll(IntPixels(100)), Scroll(BadPixels),
      VisitDone, Plain("history_back"),
      Plain("double_click"), NoAction } \cup Terminations
LoopChoices ==
    { Click(CoordA, NoPixels), Click(CoordA2, NoPixels), Click(CoordA, BadPixels),
      TypeAt(CoordA, FALSE), TypeAt(NoCoord, FALSE),
      Scroll(IntPixels(100)),
      Terminate("failure", ""), NoAction }

\* What a run can meet: the pages of the site, where the first navigation
\* lands, the responses of the model, whether the viewport sync succeeds.
World(pages, start, choices, sync) ==
    [pages |-> pages, start_pages |-> start, choices |-> choices, sync |-> sync]
LoginPage == Page(U_LOGIN, "Login", {}, FALSE)
GeneralWorld == World(Pages, {LoginPage, Page(U_404, "Done", {}, FALSE)}, ActionChoices, BOOLEAN)
LoopWorld == World({LoginPage, Page(U_DONE, "Done", {"Welcome"}, FALSE)}, {LoginPage},
                   LoopChoices, BOOLEAN)
\* Two pages and a model that keeps going back (or answers without a tool call).
RingChoices == { Plain("history_back"), NoAction }
RingWorld == World({LoginPage, Page(U_DONE, "Done", {"Welcome"}, FALSE)}, {LoginPage},
                   RingChoices, {TRUE})

\* prompt_data["im_size"] and the viewport the browser starts with.
ImSize == <<56, 28>>
DefaultViewport == <<112, 56>>

\* ------------------------------------------------------------------ state
VARIABLES
    probe,              \* the call in progress when one function is run on its own
    replay,             \* which run of a repeated test case this is, and the first run's states
    semaphore,          \* run_parallel: the permits its semaphore has left
    pool_runs,          \* run_parallel: one record per run_with_limit coroutine
    agents,             \* run_parallel: the FaraAgent objects created so far
    final_results,      \* run_parallel: the list it returns, << >> before
    mcp,                \* the MCP server: run index, active tasks, semaphore
    world,              \* what the browser and the model can answer in this run
    pc,                 \* where run_task / run_test_case stands
    test_case,          \* the TestCase of the run
    browser,            \* the page the browser shows
    viewport,           \* viewport_width, viewport_height
    last_im_size,       \* << >> (None) or the size of the last prompt image
    round_count,        \* round_num + 1 of the current round, 0 before the loop
    page_title,         \* page_title of the last observation
    last_page_text,     \* page_text / _last_page_text of the last observation
    click_counts, type_counts, visit_counts,
    just_submitted, page_changed, page_changed_since_last_action,
    last_action_signature,  \* << >> (None) or <<signature>>
    repeat_action_streak,
    verified_expectations, transitions,
    actions,            \* the ActionTrace list
    success, fail_reason,
    action_args,        \* the parsed action of the round
    model_calls,        \* _call_model invocations of the current round
    before_url_norm,
    result,             \* what _execute_action returned
    run_result,         \* the TestRunResult run_task returns
    exit_path,          \* which exit of the loop the run took
    llm_error,          \* history: a _call_model of this round failed after its retries
    recent_signatures   \* history: signatures of the last executed actions

vars == << probe, replay, semaphore, pool_runs, agents, final_results, mcp, world, pc, test_case, browser, viewport, last_im_size, round_count, page_title,
           last_page_text, click_counts, type_counts, visit_counts, just_submitted,
           page_changed, page_changed_since_last_action, last_action_signature,
           repeat_action_streak, verified_expectations, transitions, actions,
           success, fail_reason, action_args, model_calls, before_url_norm, result,
           run_result, exit_path, llm_error, recent_signatures >>

NoResult == [success |-> FALSE, reason |-> NoReason, actions |-> << >>]
NoPage == Page("about:blank", "", {}, FALSE)

TraceStamped(r, a, res) == [round_index |-> r, action |-> a, result |-> res, run |-> replay.run]
\* The ActionTrace fields a run is judged by: round_index, action, result.
Trace(r, a, res) == [round_index |-> r, action |-> a, result |-> res]

AddVerifiedAgain(verified, tc, url, text) ==
    LET scoped == ExtractScopedExpectationsForUrl(tc, url)
        F[i \in 0..Len(scoped)] ==
            IF i = 0 THEN verified
            ELSE IF TextIn(scoped[i], text)
                 THEN Append(F[i - 1], <<url, scoped[i]>>)
                 ELSE F[i - 1]
    IN  F[Len(scoped)]
AddVerifiedAnyText(verified, tc, url, text) ==
    LET scoped == ExtractScopedExpectationsForUrl(tc, url)
    IN  verified \o [i \in 1..Len(scoped) |-> <<url, scoped[i]>>]
\* The (url, expected) pairs run_test_case adds for the page at url with text.
AddVerified(verified, tc, url, text) ==
    LET scoped == ExtractScopedExpectationsForUrl(tc, url)
        InList(v, pair) == \E i \in 1..Len(v) : v[i] = pair
        F[i \in 0..Len(scoped)] ==
            IF i = 0 THEN verified
            ELSE IF TextIn(scoped[i], text) /\ ~InList(F[i - 1], <<url, scoped[i]>>)
                 THEN Append(F[i - 1], <<url, scoped[i]>>)
                 ELSE F[i - 1]
    IN  F[Len(scoped)]

poolvars == << semaphore, pool_runs, agents, final_results, mcp >>
runvars == << world, pc, test_case, browser, viewport, last_im_size, round_count, page_title,
              last_page_text, click_counts, type_counts, visit_counts, just_submitted,
              page_changed, page_changed_since_last_action, last_action_signature,
              repeat_action_streak, verified_expectations, transitions, actions,
              success, fail_reason, action_args, model_calls, before_url_norm, result,
              run_result, exit_path, llm_error, recent_signatures >>

\* No function is run on its own.
NoProbe == [fn |-> None]

\* The test case is run once: nothing is kept for a second run.
NoReplay == [run |-> 1, tape |-> << >>, pos |-> 0]

\* The MCP server is not part of the run.
NoServer == [records |-> << >>, tasks |-> << >>, active |-> {}, permits |-> 0]

\* No run_parallel call is in progress, no MCP server is up.
PoolIdle ==
    /\ semaphore = 0
    /\ pool_runs = << >>
    /\ agents = << >>
    /\ final_results = << >>
    /\ mcp = NoServer

\* run_test_case resets the run-scoped state of the agent.
RunInit(w, tasks) ==
    /\ world = w
    /\ pc = "init"
    /\ test_case \in tasks
    /\ browser = NoPage
    /\ viewport = DefaultViewport
    /\ last_im_size = << >>
    /\ round_count = 0
    /\ page_title = ""
    /\ last_page_text = Text({}, FALSE)
    /\ click_counts = Empty /\ type_counts = Empty /\ visit_counts = Empty
    /\ just_submitted = FALSE /\ page_changed = FALSE
    /\ page_changed_since_last_action = FALSE
    /\ last_action_signature = << >>
    /\ repeat_action_streak = 0
    /\ verified_expectations = << >> /\ transitions = << >>
    /\ actions = << >>
    /\ success = FALSE /\ fail_reason = NoReason
    /\ action_args = NoAction
    /\ model_calls = 0
    /\ before_url_norm = ""
    /\ result = NoReason
    /\ run_result = NoResult
    /\ exit_path = ""
    /\ llm_error = FALSE
    /\ recent_signatures = << >>

InitWith(w, tasks) == probe = NoProbe /\ replay = NoReplay /\ PoolIdle /\ RunInit(w, tasks)

Init == InitWith(GeneralWorld, Tasks)
InitLoop == InitWith(LoopWorld, {TaskLong, TaskSkipped})
InitRing == InitWith(RingWorld, {TaskRing, TaskSkipped})

\* An exception leaves run_test_case: run_task's except clause is next.
Raise(what) ==
    /\ pc' = "raised"
    /\ fail_reason' = R("Runner exception: {}", what)

\* A break out of the round loop, or its exhaustion.
Exit(path) ==
    /\ pc' = "finish"
    /\ exit_path' = path

\* run_sequential: a test case marked skip is not run; its result is made here.
RunSkipped ==
    /\ pc = "init"
    /\ test_case.skip
    /\ run_result' = [success |-> FALSE,
                      reason |-> R("Skipped: {}",
                                   IF test_case.skip_reason \in {None, ""}
                                   THEN "marked as skip" ELSE test_case.skip_reason),
                      actions |-> << >>]
    /\ exit_path' = "skipped"
    /\ pc' = "done"
    /\ UNCHANGED << probe, poolvars,
                    world, test_case, browser, viewport, last_im_size, round_count, page_title,
                    last_page_text, click_counts, type_counts, visit_counts, just_submitted,
                    page_changed, page_changed_since_last_action, last_action_signature,
                    repeat_action_streak, verified_expectations, transitions, actions,
                    success, fail_reason, action_args, model_calls, before_url_norm,
                    result, llm_error, recent_signatures >>

\* run_test_case up to the round loop: reset, navigation to start_url, first
\* observation, initial verified expectations, viewport sync.
Start ==
    /\ pc = "init"
    /\ ~test_case.skip
    /\ UNCHANGED llm_error
    /\ UNCHANGED << probe, poolvars,
                    world, test_case, round_count, click_counts, type_counts, just_submitted,
                    page_changed, page_changed_since_last_action, last_action_signature,
                    repeat_action_streak, transitions, actions, success, action_args,
                    model_calls, before_url_norm, result, run_result, recent_signatures >>
    /\ \/ /\ \E what \in {"Navigation failed", "Screenshot failed"} : Raise(what)
          /\ UNCHANGED << browser, viewport, last_im_size, page_title, last_page_text,
                          visit_counts, verified_expectations, exit_path >>
       \/ \E landing \in world.start_pages, synced \in world.sync :
            /\ browser' = landing
            /\ visit_counts' = Incr(Empty, NormalizeForCompare(test_case.start_url))
            /\ page_title' = landing.title
            /\ last_page_text' = landing.text
            /\ verified_expectations' = AddVerified(<< >>, test_case, landing.url, landing.text)
            /\ viewport' = IF synced THEN ImSize ELSE viewport
            /\ last_im_size' = IF synced THEN ImSize ELSE last_im_size
            /\ pc' = "round"
            /\ fail_reason' = R("Max rounds reached.", "")
            /\ UNCHANGED exit_path

\* for round_num in range(self.max_rounds): the loop is exhausted.
LoopExit ==
    /\ pc = "round"
    /\ UNCHANGED llm_error
    /\ round_count >= test_case.max_rounds
    /\ Exit("max_rounds")
    /\ UNCHANGED << probe, poolvars,
                    world, test_case, browser, viewport, last_im_size, round_count, page_title,
                    last_page_text, click_counts, type_counts, visit_counts, just_submitted,
                    page_changed, page_changed_since_last_action, last_action_signature,
                    repeat_action_streak, verified_expectations, transitions, actions,
                    success, fail_reason, action_args, model_calls, before_url_norm,
                    result, run_result, recent_signatures >>

\* The head of a round: the page-changed flag, the bucket reset, the
\* scoped-text-missing check and the auto-pass check.
ClearBucketsNever(changed, counts) == counts
\* The click or type buckets at the start of a round: emptied when the page
\* was seen to change since the previous action.
ClearBuckets(changed, counts) == IF changed THEN Empty ELSE counts

RoundHeadVerdictPassFirst(text_reason, auto) ==
    IF auto.pass THEN "auto_pass"
    ELSE IF text_reason # NoReason THEN "text_expectations"
    ELSE "model"
\* What the head of a round decides: the text check is asked first, then the
\* auto-pass check; with neither the model is called.
RoundHeadVerdict(text_reason, auto) ==
    IF text_reason # NoReason THEN "text_expectations"
    ELSE IF auto.pass THEN "auto_pass"
    ELSE "model"

BeginRound ==
    /\ pc = "round"
    /\ round_count < test_case.max_rounds
    /\ LET changed == page_changed_since_last_action
           text_reason == CheckTextExpectations(test_case, browser.url, last_page_text, changed)
           auto == CheckAutoPass(test_case, browser.url, verified_expectations,
                                 last_page_text, transitions)
       IN  /\ round_count' = round_count + 1
           /\ page_changed' = changed
           /\ click_counts' = ClearBuckets(changed, click_counts)
           /\ type_counts' = ClearBuckets(changed, type_counts)
           /\ model_calls' = 0
           /\ llm_error' = FALSE
           /\ IF RoundHeadVerdict(text_reason, auto) = "text_expectations" THEN
                  /\ success' = FALSE
                  /\ fail_reason' = text_reason
                  /\ actions' = Append(actions, Trace(round_count + 1, "auto_terminate", text_reason))
                  /\ Exit("text_expectations")
              ELSE IF RoundHeadVerdict(text_reason, auto) = "auto_pass" THEN
                  /\ success' = TRUE
                  /\ fail_reason' = auto.reason
                  /\ actions' = Append(actions, Trace(round_count + 1, "auto_terminate", auto.reason))
                  /\ Exit("auto_pass")
              ELSE
                  /\ pc' = "invoke"
                  /\ UNCHANGED << success, fail_reason, actions, exit_path >>
    /\ UNCHANGED << probe, poolvars,
                    world, test_case, browser, viewport, last_im_size, page_title, last_page_text,
                    visit_counts, just_submitted, page_changed_since_last_action,
                    last_action_signature, repeat_action_streak, verified_expectations,
                    transitions, action_args, before_url_norm, result, run_result,
                    recent_signatures >>

RepairNextAgain(allowed) == IF allowed THEN "dispatch" ELSE "repair"
\* Where the round goes after the repair call: on to the action, or out.
RepairNext(allowed) == IF allowed THEN "dispatch" ELSE "finish"

\* The context is built and the model is called; its response is parsed.
Invoke ==
    /\ pc = "invoke"
    /\ last_im_size' = ImSize
    /\ model_calls' = model_calls + 1
    /\ \/ /\ fail_reason' = R("LLM error: {}", "Model call failed")
          /\ Exit("llm_error")
          /\ llm_error' = TRUE
          /\ UNCHANGED action_args
       \/ \E parsed \in world.choices :
            /\ action_args' = parsed
            /\ pc' = IF IsActionAllowed(parsed) THEN "dispatch" ELSE "repair"
            /\ UNCHANGED << fail_reason, exit_path, llm_error >>
    /\ UNCHANGED << probe, poolvars,
                    world, test_case, browser, viewport, round_count, page_title, last_page_text,
                    click_counts, type_counts, visit_counts, just_submitted, page_changed,
                    page_changed_since_last_action, last_action_signature,
                    repeat_action_streak, verified_expectations, transitions, actions,
                    success, before_url_norm, result, run_result, recent_signatures >>

\* The one repair turn: the model is called again; an exception of that call
\* (failed) is swallowed and counts as no action.
Repair ==
    /\ pc = "repair"
    /\ model_calls' = model_calls + 1
    /\ \E failed \in BOOLEAN, response \in world.choices :
         LET parsed == IF failed THEN NoAction ELSE response
         IN  /\ llm_error' = failed
             /\ action_args' = parsed
             /\ pc' = RepairNext(IsActionAllowed(parsed))
             /\ IF pc' = "finish"
                THEN /\ fail_reason' = R("Model did not return a valid tool call.", "")
                     /\ exit_path' = "invalid_tool_call"
                ELSE UNCHANGED << fail_reason, exit_path >>
    /\ UNCHANGED << probe, poolvars,
                    world, test_case, browser, viewport, last_im_size, round_count, page_title,
                    last_page_text, click_counts, type_counts, visit_counts, just_submitted,
                    page_changed, page_changed_since_last_action, last_action_signature,
                    repeat_action_streak, verified_expectations, transitions, actions,
                    success, before_url_norm, result, run_result, recent_signatures >>

TerminateStatusCaseSensitive(args) == IF args.status = "" THEN "failure" ELSE args.status
\* status = action_args.get("status", "").lower() or "failure"
TerminateStatus(args) == IF Lower(args.status) = "" THEN "failure" ELSE Lower(args.status)
TerminateSuccessTruthy(args) == TerminateStatus(args) # ""
\* success = status == "success"
TerminateSuccess(args) == TerminateStatus(args) = "success"

TerminateReasonAsGiven(args) == R(args.reason, "")
\* fail_reason = reason or f"Model terminated with status: {status}"
TerminateReason(args) ==
    IF args.reason # "" THEN R(args.reason, "")
    ELSE R("Model terminated with status: {}", TerminateStatus(args))

\* A valid action was parsed: the one-shot flags are cleared; terminate ends
\* the run, any other action is executed next.
KeepOneShot(flag) == flag
\* A one-shot flag after it has been in the prompt of the round.
ClearOneShot(flag) == FALSE

Dispatch ==
    /\ pc = "dispatch"
    /\ UNCHANGED llm_error
    /\ page_changed_since_last_action' = ClearOneShot(page_changed_since_last_action)
    /\ page_changed' = ClearOneShot(page_changed)
    /\ just_submitted' = ClearOneShot(just_submitted)
    /\ IF action_args.action = "terminate" /\ action_args.status = None THEN
           \* a null status: None has no lower()
           /\ Raise("'NoneType' object has no attribute 'lower'")
           /\ UNCHANGED << success, actions, exit_path, before_url_norm >>
       ELSE IF action_args.action = "terminate" THEN
           /\ success' = TerminateSuccess(action_args)
           /\ fail_reason' = TerminateReason(action_args)
           /\ actions' = Append(actions, Trace(round_count, "terminate",
                              IF action_args.reason # "" THEN R(action_args.reason, "")
                              ELSE R("terminate", "")))
           /\ Exit("terminate")
           /\ UNCHANGED before_url_norm
       ELSE
           /\ before_url_norm' = NormalizeForCompare(browser.url)
           /\ pc' = "execute"
           /\ UNCHANGED << success, fail_reason, actions, exit_path >>
    /\ UNCHANGED << probe, poolvars,
                    world, test_case, browser, viewport, last_im_size, round_count, page_title,
                    last_page_text, click_counts, type_counts, visit_counts,
                    last_action_signature, repeat_action_streak, verified_expectations,
                    transitions, action_args, model_calls, result, run_result,
                    recent_signatures >>

\* any(term in label.lower() for term in ("sign up", ..., "submit", ...))
SubmitLabel(label) == Lower(label) \in {"submit"}

\* The text of the element a click hit, as the browser reports it.
ClickedTextAt(coord) == IF coord = CoordA THEN "Confirm" ELSE None

Out(res, page, c, t, v, js, ct) ==
    [result |-> res, page |-> page, clicks |-> c, types |-> t, visits |-> v,
     submitted |-> js, clicked_text |-> ct]

\* _execute_action: every outcome the browser can give the action. An exception
\* of a browser call becomes the result "Action failed: ..." (a click that
\* fails, a scroll by pixels that are no number). The actions are those of
\* ActionChoices; the element at CoordA carries the text "Confirm".
ExecuteAction(args, b, pages, clicks, types, visits, js, im_size, vp) ==
    LET coord == IF args.coordinate = NoCoord THEN <<0, 0>> ELSE args.coordinate
        bucket == BucketCoord(ConvertResizedCoordsToViewport(coord, im_size, vp))
        Failed(c, t) == Out(R("Action failed: {}", "browser error"), b, c, t, visits, js, None)
        Same(msg) == Out(R(msg, ""), b, clicks, types, visits, js, None)
    IN  CASE args.action = "visit_url" ->
               IF args.url = None THEN {Same("No URL provided.")}
               ELSE IF NormalizeForCompare(args.url) = NormalizeForCompare(b.url)
               THEN {Same("Already at that URL; no navigation performed.")}
               ELSE { Out(R("I navigated to '{}'.", args.url), p, clicks, types,
                          Incr(visits, NormalizeForCompare(args.url)), js, None) : p \in pages }
          [] args.action = "left_click" ->
               {Failed(Incr(clicks, bucket), types)} \cup
               { Out(R("I clicked at coordinates {}.", ""), p, Incr(clicks, bucket), types,
                     visits, js \/ SubmitLabel(args.label), ClickedTextAt(coord)) :
                   p \in pages \cup {b} }
          [] args.action = "type" ->
               LET t2 == IF args.coordinate # NoCoord THEN Incr(types, bucket) ELSE types
               IN  { Out(R("I typed '{}'.", ""), p, clicks, t2, visits,
                         js \/ args.press_enter, None) :
                       p \in IF args.press_enter THEN pages \cup {b} ELSE {b} }
          [] args.action = "scroll" ->
               IF args.pixels.tag = "str"
               THEN {Out(R("Action failed: {}", "'>' not supported between 'str' and 'int'"),
                         b, clicks, types, visits, js, None)}
               ELSE {Same("I scrolled {} one page.")}
          [] args.action = "history_back" ->
               { Out(R("I went back to the previous page.", ""), p, clicks, types,
                     Incr(visits, NormalizeForCompare(p.url)), js, None) : p \in pages }
          [] args.action = "wait" -> {Same("I waited for {} seconds.")}
          [] OTHER -> {Same("Unknown action: {}")}

ExecuteRaisesOnFailure(res, sig_ok) == ~sig_ok \/ res.msg = "Action failed: {}"
\* Whether the round raises after _execute_action returned res: only when
\* _action_signature does; the result of a failed action is a string like
\* any other.
ExecuteRaises(res, sig_ok) == ~sig_ok

\* The action is executed; then the repeat-action streak and the loop blocker.
Execute ==
    /\ pc = "execute"
    /\ UNCHANGED llm_error
    /\ \E o \in ExecuteAction(action_args, browser, world.pages, click_counts, type_counts, visit_counts,
                              just_submitted, last_im_size, viewport) :
         LET s == ActionSignature(action_args, o.page.url, last_im_size, viewport)
             upd == StreakUpdate(s.sig, last_action_signature, repeat_action_streak)
             loop_reason == DetectLoopBlocker(o.clicks, o.types)
             streak_reason ==
                 R("Loop detected: repeated the same action 3 times in a row without progress.", "")
         IN  /\ browser' = o.page
             /\ click_counts' = o.clicks
             /\ type_counts' = o.types
             /\ visit_counts' = o.visits
             /\ just_submitted' = o.submitted
             /\ result' = o.result
             \* action_args["_clicked_text"] = clicked_text
             /\ action_args' = [action_args EXCEPT !.clicked_text = o.clicked_text]
             /\ IF ExecuteRaises(o.result, s.ok) THEN
                    /\ Raise("invalid literal for int()")
                    /\ UNCHANGED << last_action_signature, repeat_action_streak, actions,
                                    exit_path, recent_signatures >>
                ELSE
                    /\ repeat_action_streak' = upd[1]
                    /\ last_action_signature' = upd[2]
                    /\ recent_signatures' =
                           LET all == Append(recent_signatures, s.sig)
                           IN  IF Len(all) > StreakLimit THEN Tail(all) ELSE all
                    /\ IF upd[1] >= StreakLimit THEN
                           /\ fail_reason' = streak_reason
                           /\ actions' = Append(actions, Trace(round_count, action_args.action, streak_reason))
                           /\ Exit("streak")
                       ELSE IF loop_reason # NoReason THEN
                           /\ fail_reason' = loop_reason
                           /\ actions' = Append(actions, Trace(round_count, action_args.action, loop_reason))
                           /\ Exit("loop_blocker")
                       ELSE
                           /\ pc' = "observe"
                           /\ UNCHANGED << fail_reason, actions, exit_path >>
    /\ UNCHANGED << probe, poolvars,
                    world, test_case, viewport, last_im_size, round_count, page_title,
                    last_page_text, page_changed, page_changed_since_last_action,
                    verified_expectations, transitions, success, model_calls,
                    before_url_norm, run_result >>

AppendTransitionUnbounded(trans, tr) == Append(trans, tr)
\* self._transitions.append(...); self._transitions = self._transitions[-20:]
AppendTransition(trans, tr) ==
    LET all == Append(trans, tr)
    IN  IF Len(all) > TransitionCap
        THEN SubSeq(all, Len(all) - TransitionCap + 1, Len(all))
        ELSE all

\* The observation after the action, the ActionTrace of the round, the
\* error-page verdict and the visit-count breaker.
VisitLoopFiresOnMissing(url_visits, missing) == missing # << >>
\* The hard loop breaker after the observation: the URL was visited 3+ times
\* and one of its scoped expectations is still missing.
VisitLoopFires(url_visits, missing) == url_visits >= VisitLimit /\ missing # << >>

Observe ==
    /\ pc = "observe"
    /\ UNCHANGED llm_error
    /\ \/ /\ Raise("Screenshot failed")
          /\ UNCHANGED << page_title, last_page_text, page_changed_since_last_action,
                          visit_counts, verified_expectations, transitions, actions,
                          success, exit_path >>
       \/ LET after_url == browser.url
              after_url_norm == NormalizeForCompare(after_url)
              changed == after_url_norm # before_url_norm
              visits == IF changed /\ action_args.action # "visit_url"
                        THEN Incr(visit_counts, after_url_norm) ELSE visit_counts
              traced == Append(actions, Trace(round_count, action_args.action, result))
              verdict == CheckAutoVerdict(test_case, browser.url, browser.title, browser.text)
              missing == FirstMissing(test_case, browser.url, browser.text)
              visit_reason ==
                  R("Loop detected: visited same page 3+ times and missing expected text '{}'.",
                    missing[1])
          IN  /\ page_title' = browser.title
              /\ last_page_text' = browser.text
              /\ page_changed_since_last_action' = changed
              /\ visit_counts' = visits
              /\ verified_expectations' =
                     AddVerified(verified_expectations, test_case, after_url, browser.text)
              /\ transitions' =
                     IF changed
                     THEN AppendTransition(transitions,
                              [from |-> before_url_norm, to |-> after_url_norm,
                               action |-> action_args.action,
                               clicked_text |-> action_args.clicked_text])
                     ELSE transitions
              /\ IF verdict # NoReason THEN
                     /\ success' = FALSE
                     /\ fail_reason' = verdict
                     /\ actions' = Append(traced, Trace(round_count, "auto_terminate", verdict))
                     /\ Exit("auto_verdict")
                 ELSE IF VisitLoopFires(Get(visits, after_url_norm), missing) THEN
                     /\ success' = FALSE
                     /\ fail_reason' = visit_reason
                     /\ actions' = Append(traced, Trace(round_count, "auto_terminate", visit_reason))
                     /\ Exit("loop_missing_text")
                 ELSE
                     /\ actions' = traced
                     /\ pc' = "round"
                     /\ UNCHANGED << success, fail_reason, exit_path >>
    /\ UNCHANGED << probe, poolvars,
                    world, test_case, browser, viewport, last_im_size, round_count, click_counts,
                    type_counts, just_submitted, page_changed, last_action_signature,
                    repeat_action_streak, action_args, model_calls, before_url_norm,
                    result, run_result, recent_signatures >>

\* The end of run_test_case: the TestRunResult it returns.
Finish ==
    /\ pc = "finish"
    /\ UNCHANGED llm_error
    /\ run_result' = [success |-> success,
                      reason |-> IF success THEN R("Completed successfully.", "") ELSE fail_reason,
                      actions |-> actions]
    /\ pc' = "done"
    /\ UNCHANGED << probe, poolvars,
                    world, test_case, browser, viewport, last_im_size, round_count, page_title,
                    last_page_text, click_counts, type_counts, visit_counts, just_submitted,
                    page_changed, page_changed_since_last_action, last_action_signature,
                    repeat_action_streak, verified_expectations, transitions, actions,
                    success, fail_reason, action_args, model_calls, before_url_norm,
                    result, exit_path, recent_signatures >>

\* run_task's except clause: the result of a run that raised.
RunTaskExcept ==
    /\ pc = "raised"
    /\ UNCHANGED llm_error
    /\ run_result' = [success |-> FALSE, reason |-> fail_reason, actions |-> << >>]
    /\ exit_path' = "exception"
    /\ pc' = "done"
    /\ UNCHANGED << probe, poolvars,
                    world, test_case, browser, viewport, last_im_size, round_count, page_title,
                    last_page_text, click_counts, type_counts, visit_counts, just_submitted,
                    page_changed, page_changed_since_last_action, last_action_signature,
                    repeat_action_streak, verified_expectations, transitions, actions,
                    success, fail_reason, action_args, model_calls, before_url_norm,
                    result, recent_signatures >>

\* cancel_run: task.cancel() makes the worker's pending await raise
\* asyncio.CancelledError.  It is a BaseException: neither run_task's nor the
\* worker's "except Exception" clause handles it, so it leaves both with only
\* the finally clauses run, and no TestRunResult is made.
SuspensionPoints == {"init", "invoke", "repair", "execute", "observe"}

Cancel ==
    /\ pc \in SuspensionPoints
    /\ ~test_case.skip
    /\ pc' = "cancelled"
    /\ exit_path' = "cancelled"
    /\ UNCHANGED << probe, poolvars,
                    world, test_case, browser, viewport, last_im_size, round_count, page_title,
                    last_page_text, click_counts, type_counts, visit_counts, just_submitted,
                    page_changed, page_changed_since_last_action, last_action_signature,
                    repeat_action_streak, verified_expectations, transitions, actions,
                    success, fail_reason, action_args, model_calls, before_url_norm,
                    result, run_result, llm_error, recent_signatures >>

Next ==
    \/ RunSkipped /\ UNCHANGED replay
    \/ Start /\ UNCHANGED replay
    \/ BeginRound /\ UNCHANGED replay
    \/ LoopExit /\ UNCHANGED replay
    \/ Invoke /\ UNCHANGED replay
    \/ Repair /\ UNCHANGED replay
    \/ Dispatch /\ UNCHANGED replay
    \/ Execute /\ UNCHANGED replay
    \/ Observe /\ UNCHANGED replay
    \/ Finish /\ UNCHANGED replay
    \/ RunTaskExcept /\ UNCHANGED replay
    \/ Cancel /\ UNCHANGED replay

Spec == Init /\ [][Next]_vars
SpecLoop == InitLoop /\ [][Next]_vars
SpecRing == InitRing /\ [][Next]_vars

\* A task with rounds enough to come back to a page already verified, and a
\* site whose final URL also answers, in another spelling, with a page that
\* lacks the expected text.
HeadRounds == 4
TaskHead == Task("head", <<StepClickConfirm>>, <<CritPair, CritFinal>>, FALSE, HeadRounds)
HeadChoices == { VisitDone, Plain("history_back"), Click(CoordA, NoPixels), NoAction }
HeadWorld ==
    World({LoginPage, Page(U_DONE, "Done", {"Welcome"}, FALSE), Page(U_DONE_UC, "Done", {}, FALSE)},
          {LoginPage}, HeadChoices, {TRUE})
InitHead == InitWith(HeadWorld, {TaskHead, TaskSkipped})
SpecHead == InitHead /\ [][Next]_vars

\* ====================================================================
\* _call_model on its own
\*
\* What one attempt of the inference call can give: a transport failure, an
\* empty response, or a response text.
TransportFailure == "transport"
EmptyResponse == ""
AttemptOutcomes == {TransportFailure, EmptyResponse, "resp_a", "resp_b"}
\* stop_after_attempt(3)
CallAttempts == 3
\* One outcome more than the attempts allowed is on offer.
OutcomesOnOffer == CallAttempts + 1

\* The exception an attempt with this outcome raises, "" for none:
\* LLMResponseError for an empty response, LLMError for any other failure.
AttemptError(outcome) ==
    IF outcome = TransportFailure THEN "Model call failed: {}"
    ELSE IF outcome = EmptyResponse THEN "Empty response from model"
    ELSE ""

StopAfterFourth(attempt_number) == attempt_number > CallAttempts
\* tenacity's stop condition after the attempt with this number.
StopAfterAttempt(attempt_number) == attempt_number >= CallAttempts

Call(outcomes, n, st, val) ==
    [fn |-> "_call_model", outcomes |-> outcomes, attempt |-> n, state |-> st, value |-> val]

InitCallModel ==
    /\ probe \in { Call(o, 0, "calling", "") : o \in [1..OutcomesOnOffer -> AttemptOutcomes] }
    /\ PoolIdle
    /\ RunInit(RingWorld, {TaskSkipped})
    /\ replay = NoReplay

\* One attempt: the response is returned, or the attempt's exception is kept
\* for a retry (after the backoff wait) or, after the last attempt, re-raised.
CallModelAttempt ==
    /\ probe.state = "calling"
    /\ LET n == probe.attempt + 1
           err == AttemptError(probe.outcomes[n])
       IN  probe' = IF err = "" THEN Call(probe.outcomes, n, "returned", probe.outcomes[n])
                    ELSE IF StopAfterAttempt(n) THEN Call(probe.outcomes, n, "raised", err)
                    ELSE Call(probe.outcomes, n, "calling", "")
    /\ UNCHANGED << poolvars, replay, runvars >>

\* The caller has the outcome of the call: the response or the LLM error.
CallModelDone ==
    /\ probe.state \in {"returned", "raised"}
    /\ probe' = [probe EXCEPT !.state = "seen_" \o probe.state]
    /\ UNCHANGED << poolvars, replay, runvars >>

NextCallModel == CallModelAttempt \/ CallModelDone

SpecCallModel == InitCallModel /\ [][NextCallModel]_vars

\* _extract_scoped_expectations_for_url on its own
\*
\* Objective steps and pass criteria to build task definitions from: with
\* and without a URL, a quoted text, the verify and content words.
ProbeSteps ==
    { Step(FALSE, "Welcome", U_DONE, TRUE, TRUE),
      Step(FALSE, "Thanks", U_DONE_UC, TRUE, TRUE),
      Step(FALSE, "Welcome", U_LOGIN, TRUE, TRUE),
      Step(FALSE, "Thanks", U_DONE, FALSE, TRUE),
      StepClickConfirm }
ProbeCrits ==
    { CritPair, Crit(U_DONE, "Thanks", TRUE), Crit(U_LOGIN, "Thanks", TRUE),
      CritFinal, Crit(None, "Welcome", FALSE) }
ProbeUrls == {U_DONE, U_DONE_UC, U_LOGIN}
\* The longest list of steps, and of criteria, of a task definition built.
ProbeListLen == 2
SeqsUpTo(S, n) == UNION { [1..k -> S] : k \in 0..n }

ScopedCall(tc, url, st, out) ==
    [fn |-> "_extract_scoped_expectations_for_url", test_case |-> tc, url |-> url,
     state |-> st, out |-> out]

InitScoped ==
    /\ probe \in { ScopedCall(Task("probe", steps, crits, FALSE, MaxRounds), u, "called", << >>) :
                      steps \in SeqsUpTo(ProbeSteps, ProbeListLen),
                      crits \in SeqsUpTo(ProbeCrits, ProbeListLen),
                      u \in ProbeUrls }
    /\ PoolIdle
    /\ RunInit(RingWorld, {TaskSkipped})
    /\ replay = NoReplay

ScopedReturn ==
    /\ probe.state = "called"
    /\ probe' = [probe EXCEPT
                    !.state = "returned",
                    !.out = ExtractScopedExpectationsForUrl(probe.test_case, probe.url)]
    /\ UNCHANGED << poolvars, replay, runvars >>

NextScoped == ScopedReturn

SpecScoped == InitScoped /\ [][NextScoped]_vars

\* _convert_resized_coords_to_viewport on its own
\*
\* Coordinates, image sizes (<< >>: none recorded) and viewports to call it
\* with; the viewports are no whole multiples of every image.
ProbeCoordValues == {0, 3, 7, 10}
ProbeImSizes == { << >>, ImSize, <<3, 7>> }
ProbeViewports == { DefaultViewport, <<10, 5>> }

CoordsCall(c, d, im, vp, st, oc, od, os) ==
    [fn |-> "_convert_resized_coords_to_viewport", c |-> c, d |-> d, im_size |-> im,
     viewport |-> vp, state |-> st, out_c |-> oc, out_d |-> od, out_sum |-> os]

InitCoords ==
    /\ probe \in { CoordsCall(c, d, im, vp, "called", << >>, << >>, << >>) :
                      c \in ProbeCoordValues \X ProbeCoordValues,
                      d \in ProbeCoordValues \X ProbeCoordValues,
                      im \in ProbeImSizes, vp \in ProbeViewports }
    /\ PoolIdle
    /\ RunInit(RingWorld, {TaskSkipped})
    /\ replay = NoReplay

\* The function is applied to c, to d and to their sum.
CoordsReturn ==
    /\ probe.state = "called"
    /\ probe' = [probe EXCEPT
                    !.state = "returned",
                    !.out_c = ScaleCoords(probe.c, probe.im_size, probe.viewport),
                    !.out_d = ScaleCoords(probe.d, probe.im_size, probe.viewport),
                    !.out_sum = ScaleCoords(<< probe.c[1] + probe.d[1], probe.c[2] + probe.d[2] >>,
                                            probe.im_size, probe.viewport)]
    /\ UNCHANGED << poolvars, replay, runvars >>

NextCoords == CoordsReturn

SpecCoords == InitCoords /\ [][NextCoords]_vars

\* run_parallel
\*
\* The test cases handed to run_parallel, one run_with_limit coroutine each.
\* A coroutine is "created" until it holds the semaphore, "acquired" once
\* inside "async with semaphore", "running" while its agent works, "done"
\* when it has left the with block (result or exception in hand).
PoolCases == << TaskPairOnly, TaskSkipped, TaskFinalOnly >>
PoolIds == 1..Len(PoolCases)
NoAgent == 0
PoolResult(id, ok, why, n) == [case |-> id, success |-> ok, reason |-> why, traces |-> n]
NoPoolResult == PoolResult(None, FALSE, "", 0)
PoolRun(st, a, res) == [pc |-> st, agent |-> a, result |-> res]
\* FaraAgent.__init__: the run-scoped state of a new agent.
NewAgent == [round_count |-> 0, traces |-> 0, verdict |-> None, closed |-> FALSE]

InitParallel ==
    /\ semaphore = MaxWorkers
    /\ pool_runs = [i \in PoolIds |-> PoolRun("created", NoAgent, NoPoolResult)]
    /\ agents = << >>
    /\ final_results = << >>
    /\ mcp = NoServer
    /\ RunInit(RingWorld, {TaskSkipped})
    /\ replay = NoReplay
    /\ probe = NoProbe

SemaphoreAlwaysFree(permits) == TRUE
\* asyncio.Semaphore: acquire() goes through only while a permit is left.
SemaphoreFree(permits) == permits > 0

\* The agent run_task constructs: an object of its own, the next of the heap.
NewAgentId(made) == Len(made) + 1

\* "async with semaphore" is entered.
PoolAcquire(i) ==
    /\ pool_runs[i].pc = "created"
    /\ SemaphoreFree(semaphore)
    /\ semaphore' = semaphore - 1
    /\ pool_runs' = [pool_runs EXCEPT ![i].pc = "acquired"]
    /\ UNCHANGED << agents, final_results >>

\* A case marked skip: its result is made without an agent; the with block
\* is left.
PoolSkip(i) ==
    /\ pool_runs[i].pc = "acquired"
    /\ PoolCases[i].skip
    /\ pool_runs' = [pool_runs EXCEPT
                        ![i] = PoolRun("done", NoAgent,
                                       PoolResult(PoolCases[i].id, FALSE, "Skipped", 0))]
    /\ semaphore' = semaphore + 1
    /\ UNCHANGED << agents, final_results >>

\* run_task: agent = FaraAgent(...); await agent.start().
PoolRunTask(i) ==
    /\ pool_runs[i].pc = "acquired"
    /\ ~PoolCases[i].skip
    /\ LET a == NewAgentId(agents)
       IN  /\ agents' = IF a > Len(agents) THEN Append(agents, NewAgent) ELSE agents
           /\ pool_runs' = [pool_runs EXCEPT ![i].pc = "running", ![i].agent = a]
    /\ UNCHANGED << semaphore, final_results >>

\* One round of the agent of run i: its round counter and trace list grow,
\* and the round may reach a verdict.
PoolAgentRound(i) ==
    /\ pool_runs[i].pc = "running"
    /\ LET a == pool_runs[i].agent
       IN  /\ agents[a].verdict = None
           /\ agents[a].round_count < PoolRounds
           /\ \E v \in {None, "pass", "fail"} :
                 agents' = [agents EXCEPT ![a].round_count = @ + 1,
                                          ![a].traces = @ + 1,
                                          ![a].verdict = v]
    /\ UNCHANGED << semaphore, pool_runs, final_results >>

\* run_test_case returns, the agent is closed, the report is generated (it
\* may raise) and the with block is left.
PoolRunTaskReturn(i) ==
    /\ pool_runs[i].pc = "running"
    /\ LET a == pool_runs[i].agent
       IN  /\ agents[a].verdict # None \/ agents[a].round_count >= PoolRounds
           /\ agents' = [agents EXCEPT ![a].closed = TRUE]
           /\ \E report_raises \in BOOLEAN :
                 pool_runs' = [pool_runs EXCEPT
                     ![i].pc = "done",
                     ![i].result =
                         IF report_raises
                         THEN PoolResult(PoolCases[i].id, FALSE, "Exception", 0)
                         ELSE PoolResult(PoolCases[i].id, agents[a].verdict = "pass",
                                         IF agents[a].verdict = "pass"
                                         THEN "Completed successfully."
                                         ELSE "Max rounds reached.",
                                         agents[a].traces)]
    /\ semaphore' = semaphore + 1
    /\ UNCHANGED final_results

\* asyncio.gather returned: the results in the order of the cases.
PoolGather ==
    /\ final_results = << >>
    /\ \A i \in PoolIds : pool_runs[i].pc = "done"
    /\ final_results' = [i \in PoolIds |-> pool_runs[i].result]
    /\ UNCHANGED << semaphore, pool_runs, agents >>

NextParallel ==
    \/ \E i \in PoolIds : PoolAcquire(i) /\ UNCHANGED << probe, replay, mcp, runvars >>
    \/ \E i \in PoolIds : PoolSkip(i) /\ UNCHANGED << probe, replay, mcp, runvars >>
    \/ \E i \in PoolIds : PoolRunTask(i) /\ UNCHANGED << probe, replay, mcp, runvars >>
    \/ \E i \in PoolIds : PoolAgentRound(i) /\ UNCHANGED << probe, replay, mcp, runvars >>
    \/ \E i \in PoolIds : PoolRunTaskReturn(i) /\ UNCHANGED << probe, replay, mcp, runvars >>
    \/ PoolGather /\ UNCHANGED << probe, replay, mcp, runvars >>

SpecParallel == InitParallel /\ [][NextParallel]_vars

\* Properties
\* ====================================================================
Ended == pc = "done"
Stopping == pc \in {"finish", "done"}
ListedExits ==
    {"text_expectations", "auto_pass", "llm_error", "invalid_tool_call", "terminate",
     "streak", "loop_blocker", "auto_verdict", "loop_missing_text"}
Msg(m) == [msg |-> m, arg |-> ""]

\* C1: a run that entered the round loop and ended through none of the
\* auto-FAIL/auto-PASS checks, loop aborts, LLM error, invalid tool call or
\* terminate has run exactly max_rounds rounds, ends with success = false and
\* reason "Max rounds reached.", and holds max_rounds traces, one per round.
C1_EndsExactlyAtMaxRounds ==
    (Ended /\ round_count >= 1 /\ exit_path \notin ListedExits) =>
        /\ round_count = test_case.max_rounds
        /\ run_result.success = FALSE
        /\ run_result.reason = Msg("Max rounds reached.")
        /\ Len(run_result.actions) = test_case.max_rounds
        /\ \A i \in 1..Len(run_result.actions) : run_result.actions[i].round_index = i

\* The signatures of the last n executed actions are all the same.
LastSame(n) ==
    /\ Len(recent_signatures) >= n
    /\ \A i \in 1..Len(recent_signatures) :
          i > Len(recent_signatures) - n =>
              recent_signatures[i] = recent_signatures[Len(recent_signatures)]
StreakMsg == Msg("Loop detected: repeated the same action 3 times in a row without progress.")

\* C2: the run is aborted with the repeated-action reason exactly when the last
\* three executed actions have identical signatures, in the round of the third
\* one (no later round begins, its trace is the last), and the streak is 1
\* after an action whose signature differs from the one before.
C2_StreakAbortIffThreeSame ==
    /\ (exit_path = "streak") <=> (LastSame(StreakLimit) /\ pc # "raised" /\ exit_path # "exception")
    /\ exit_path = "streak" =>
          /\ Stopping
          /\ fail_reason = StreakMsg
          /\ ~success
          /\ actions[Len(actions)].round_index = round_count
          /\ actions[Len(actions)].result = StreakMsg
    /\ (Len(recent_signatures) >= 2 /\ ~LastSame(2)) => repeat_action_streak = 1
    /\ (LastSame(2) /\ ~LastSame(3)) => repeat_action_streak = 2
    /\ Ended /\ exit_path = "streak" => run_result.reason = StreakMsg

\* C2 witness: the abort came in round 3 of a run with rounds to spare.
C2_Witness ==
    /\ Ended /\ exit_path = "streak" /\ round_count = StreakLimit
    /\ test_case.max_rounds > StreakLimit
    /\ run_result.reason = StreakMsg

ClickMsg == Msg("Loop detected: clicked the same region 4+ times without progress.")
Escaped == pc = "raised" \/ exit_path = "exception"

AutoPassNow ==
    CheckAutoPass(test_case, browser.url, verified_expectations, last_page_text, transitions)
CritsOf(tc) == { tc.pass_criteria[i] : i \in 1..Len(tc.pass_criteria) }
StepsOf(tc) == { tc.objective_steps[i] : i \in 1..Len(tc.objective_steps) }
\* Pass criteria that embed both a URL and a quoted text.
PairCrits(tc) == { cr \in CritsOf(tc) : cr.url # None /\ cr.quoted # None }
\* Pass criteria that name a URL as the final one, without a quoted text.
FinalCrits(tc) == { cr \in CritsOf(tc) : cr.url # None /\ cr.quoted = None /\ cr.is_at }
Recorded(cr) ==
    \E i \in 1..Len(verified_expectations) :
        /\ Lower(verified_expectations[i][1]) = Lower(cr.url)
        /\ verified_expectations[i][2] = cr.quoted
OnPageNow(cr) ==
    /\ Lower(browser.url) = Lower(cr.url)
    /\ \E t \in last_page_text.texts : Lower(t) = Lower(cr.quoted)
\* The pair criterion cr is recorded, the browser is at its URL, and the most
\* recent transition is a left_click whose clicked text is the quoted text of
\* a "Click" objective step and which landed on that URL.
ClickConfirmedPair(cr) ==
    /\ cr \in PairCrits(test_case)
    /\ Recorded(cr)
    /\ Lower(browser.url) = Lower(cr.url)
    /\ Len(transitions) > 0
    /\ LET tr == transitions[Len(transitions)]
       IN  /\ tr.action = "left_click"
           /\ tr.to = Lower(cr.url)
           /\ \E st \in StepsOf(test_case) :
                 st.click /\ st.quoted # None /\ tr.clicked_text = st.quoted
CitesCriteriaAndClick(reason) ==
    /\ reason.msg = "All URL-scoped pass criteria satisfied and clicked '{}' navigated to final URL."
    /\ reason.arg = Lower(transitions[Len(transitions)].clicked_text)

C5_NoPassWithUnsatisfiedPair ==
    ((pc = "round" \/ exit_path = "auto_pass") /\ AutoPassNow.pass) =>
        \A cr \in PairCrits(test_case) : Recorded(cr) \/ OnPageNow(cr)

\* C5 witness: the check is evaluated at the final URL after a click landed
\* there, with a pair that is unsatisfied, and does not fire.
C5_Witness ==
    /\ pc = "round" /\ round_count >= 1
    /\ \E cr \in PairCrits(test_case) : ~Recorded(cr) /\ ~OnPageNow(cr)
    /\ \E fc \in FinalCrits(test_case) :
          /\ Lower(browser.url) = Lower(fc.url)
          /\ \E i \in 1..Len(transitions) :
                transitions[i].action = "left_click" /\ transitions[i].to = Lower(fc.url)
    /\ ~AutoPassNow.pass

C7_NoPairsNoAutoPass ==
    PairCrits(test_case) = {} =>
        /\ exit_path # "auto_pass"
        /\ pc = "round" => ~AutoPassNow.pass

\* The browser shows a page whose URL or title holds an error term.
OnErrorPage ==
    \/ browser.url \in {"https://x/404"}
    \/ browser.title \in {"Server Error"}

\* C8: a run whose browser is on a page with an error term in its URL or title
\* ends with success = false.
C8_ErrorPageFails ==
    (Ended /\ OnErrorPage) => ~run_result.success

\* C9: success = true comes only from the auto-PASS check or from a terminate
\* action whose status is "success"; every other end of the loop (LLM error,
\* invalid tool call, loop detections, error page, missing text, max rounds,
\* an exception) gives success = false.
C9_SuccessOnlyByAutoPassOrTerminate ==
    /\ success =>
          \/ exit_path = "auto_pass"
          \/ /\ exit_path = "terminate"
             /\ action_args.action = "terminate"
             /\ action_args.status \in {"success", "SUCCESS", "Success"}
    /\ Ended => (run_result.success <=> success)
    /\ (Ended /\ exit_path \notin {"auto_pass", "terminate"}) => ~run_result.success

\* C9 witness: a run ended successfully by terminate, with status "success".
C9_Witness ==
    /\ Ended /\ run_result.success /\ exit_path = "terminate"
    /\ action_args.status = "success"

\* C10: the model is called at most twice in a round; the second call is the
\* one repair turn after a first response that gave no allowed action; when
\* the repair turn gives none either the run fails with "Model did not return
\* a valid tool call." and no action is executed.
C10_OneRepairTurn ==
    /\ model_calls <= 2
    /\ pc = "repair" => (model_calls = 1 /\ action_args.action \notin AllowedActions)
    /\ pc \in {"dispatch", "execute", "observe"} => action_args.action \in AllowedActions
    /\ exit_path = "invalid_tool_call" =>
          /\ model_calls = 2
          /\ action_args.action \notin AllowedActions
          /\ fail_reason = Msg("Model did not return a valid tool call.")
          /\ ~success
          /\ \A i \in 1..Len(actions) : actions[i].round_index < round_count
    /\ (Ended /\ exit_path = "invalid_tool_call") =>
          run_result.reason = Msg("Model did not return a valid tool call.")

\* C10 witness: a run failed after its repair turn gave no allowed action.
C10_Witness ==
    /\ Ended /\ exit_path = "invalid_tool_call" /\ model_calls = 2
    /\ ~run_result.success

\* C11: whenever a model call of the controller, the call of the round or the
\* repair call, fails after its retries, the run ends with success = false and
\* a reason "LLM error: <message>" that carries the message of the error.
C11_ModelFailureGivesLlmError ==
    llm_error =>
        /\ Stopping
        /\ ~success
        /\ fail_reason.msg = "LLM error: {}" /\ fail_reason.arg = "Model call failed"
        /\ Ended => run_result.reason = fail_reason

\* The result of an action during which a browser call threw.
BrowserFailure(res) == res.msg = "Action failed: {}" /\ res.arg = "browser error"

\* C12: an exception of the browser during an allowed action becomes the
\* result "Action failed: <message>" and never ends the run: the round raises
\* after the action only when the signature of its arguments cannot be
\* computed, the streak is updated, and after the observation the ActionTrace
\* of the round carries that result; the result is never the run's reason.
C12_ActionFailureIsAResult ==
    /\ (pc = "raised" /\ fail_reason.arg = "invalid literal for int()") =>
          action_args.pixels.tag = "str"
    /\ (pc = "observe" /\ BrowserFailure(result)) =>
          /\ action_args.action \in AllowedActions
          /\ repeat_action_streak >= 1
          /\ last_action_signature # << >>
          /\ last_action_signature[1].action = action_args.action
    /\ (pc = "round" /\ round_count >= 1 /\ BrowserFailure(result)) =>
          /\ Len(actions) >= 1
          /\ actions[Len(actions)].round_index = round_count
          /\ actions[Len(actions)].action = action_args.action
          /\ actions[Len(actions)].result = result
    /\ fail_reason.msg # "Action failed: {}"
    /\ Ended => run_result.reason.msg # "Action failed: {}"

\* C12 witness: a click failed in the browser, the round was observed and
\* traced with that result, and the run goes on to another round.
C12_Witness ==
    /\ pc = "invoke" /\ round_count >= 2
    /\ BrowserFailure(result)
    /\ actions[Len(actions)].result = result
    /\ actions[Len(actions)].round_index = round_count - 1

SuccessStatuses == {"success", "SUCCESS", "Success"}

\* C13: a terminate action ends the run in its round and is never executed as
\* a browser action; the run succeeds exactly when the status is "success" in
\* any letter case, so a missing, empty or null status gives success = false.
C13_TerminateGivesDeclaredStatus ==
    /\ action_args.action = "terminate" =>
          /\ pc \in {"dispatch", "finish", "done", "raised", "cancelled"}
          /\ pc # "dispatch" => (success <=> action_args.status \in SuccessStatuses)
          /\ Ended => (run_result.success <=> action_args.status \in SuccessStatuses)
    /\ exit_path = "terminate" =>
          /\ action_args.action = "terminate"
          /\ actions[Len(actions)].round_index = round_count
          /\ actions[Len(actions)].action = "terminate"
          /\ \A i \in 1..(Len(actions) - 1) : actions[i].round_index < round_count

\* C13 witness: a terminate with status "SUCCESS" ended the run successfully
\* in round 2, after a round that executed an action.
C13_Witness ==
    /\ Ended /\ exit_path = "terminate" /\ round_count = 2
    /\ action_args.status = "SUCCESS" /\ run_result.success
    /\ Len(run_result.actions) = 2

\* C14: when a run fails after k rounds have been traced, here through a
\* screenshot that fails during the observation of a later round, the
\* TestRunResult handed to the caller holds all k ActionTrace entries.
C14_FailedRunKeepsTraces ==
    (Ended /\ ~run_result.success /\ fail_reason.arg = "Screenshot failed") =>
        run_result.actions = actions

\* C15: every TestRunResult, on every terminal path, has a non-empty reason
\* (a reason is its message text with the argument formatted into it).
C15_ReasonNeverEmpty ==
    /\ Ended => run_result.reason.msg # ""
    /\ pc \in {"finish", "raised"} => fail_reason.msg # ""
    /\ (Ended /\ exit_path = "terminate" /\ action_args.reason = "") =>
          \/ run_result.reason = [msg |-> "Model terminated with status: {}", arg |-> "failure"]
          \/ run_result.reason = Msg("Completed successfully.")
    /\ (Ended /\ exit_path = "skipped") =>
          run_result.reason = [msg |-> "Skipped: {}", arg |-> "marked as skip"]

\* C15 witness: a run ended by a terminate that gave no reason and no status.
C15_Witness ==
    /\ Ended /\ exit_path = "terminate"
    /\ action_args.reason = "" /\ action_args.status = ""
    /\ run_result.reason.msg = "Model terminated with status: {}"

\* C16: a cancelled run still yields a well-formed terminal TestRunResult
\* (one with a non-empty reason).
C16_CancelledRunYieldsResult ==
    pc = "cancelled" => run_result.reason.msg # ""

\* The previous round's action changed the normalized URL: the URL seen now
\* differs from the one noted before that action ran.
UrlChangedByLastAction ==
    round_count >= 1 /\ NormalizeForCompare(browser.url) # before_url_norm

\* A round starts: the step from the top of the loop into round round_count + 1.
RoundStarts == pc = "round" /\ round_count' = round_count + 1

\* C17: at the start of a round that follows an action which changed the
\* normalized URL the click and type buckets are emptied; after an action
\* that left it unchanged (and in round 1) they are kept; the visit
\* counters and the repeat-signature streak are never touched by the reset.
\* The buckets are already in their new state wherever the round goes next
\* (verdict check exit or model call).
C17_BucketsClearedAfterUrlChange ==
    [][RoundStarts =>
          /\ (UrlChangedByLastAction =>
                  click_counts' = Empty /\ type_counts' = Empty)
          /\ (~UrlChangedByLastAction =>
                  click_counts' = click_counts /\ type_counts' = type_counts)
          /\ visit_counts' = visit_counts
          /\ repeat_action_streak' = repeat_action_streak
          /\ last_action_signature' = last_action_signature]_vars

\* Round 2 is about to call the model after a click at a coordinate (counted
\* in its bucket) took the browser to another URL: the buckets are empty, the
\* visit counter and the streak are still there.
C17_Witness ==
    /\ pc = "invoke"
    /\ round_count = 2
    /\ NormalizeForCompare(browser.url) # before_url_norm
    /\ actions[Len(actions)].action = "left_click"
    /\ action_args.coordinate # NoCoord
    /\ click_counts = Empty
    /\ type_counts = Empty
    /\ Get(visit_counts, NormalizeForCompare(browser.url)) >= 1
    /\ repeat_action_streak >= 1

\* The expectations scoped to the URL the browser is at, in the order the
\* task lists them, and whether the i-th is absent from the body text seen.
ScopedHere == ExtractScopedExpectationsForUrl(test_case, browser.url)
AbsentHere(i) == ~TextIn(ScopedHere[i], last_page_text)
FirstAbsentIs(e) ==
    \E i \in 1..Len(ScopedHere) :
        /\ ScopedHere[i] = e
        /\ AbsentHere(i)
        /\ \A j \in 1..(i - 1) : ~AbsentHere(j)

\* C18: the run ends with "Expected text '...' missing after navigation."
\* only at the start of a round after round 1 whose preceding action changed
\* the normalized URL, and the text it names is the first expectation scoped
\* to the new URL that the body text lacks.
C18_TextMissingOnlyAfterNavigation ==
    fail_reason.msg = "Expected text '{}' missing after navigation." =>
        /\ exit_path = "text_expectations"
        /\ round_count >= 2
        /\ Len(actions) = round_count
        /\ UrlChangedByLastAction
        /\ FirstAbsentIs(fail_reason.arg)
        /\ ~success

\* The two-text task went from the login page to the page that holds
\* "Welcome" but not "Thanks": round 2 ends the run naming "Thanks".
C18_Witness ==
    /\ Ended
    /\ exit_path = "text_expectations"
    /\ test_case = TaskTwoTexts
    /\ round_count = 2
    /\ run_result.reason = R("Expected text '{}' missing after navigation.", "Thanks")
    /\ ~AbsentHere(1)

VisitMsg == "Loop detected: visited same page 3+ times and missing expected text '{}'."
VisitsHere == Get(visit_counts, NormalizeForCompare(browser.url))
SomeAbsentHere == \E i \in 1..Len(ScopedHere) : AbsentHere(i)

\* C19: the run ends with the visit-count reason only when the URL the
\* browser is at was visited 3+ times and a text scoped to it is absent, and
\* it names the first absent one; and whenever a round's observation is over
\* and the run goes on to the next round, that condition is false.  A visit
\* count of 3+ with every scoped text present therefore never ends the run.
C19_VisitAbortIffThreeVisitsAndMissing ==
    /\ (exit_path = "loop_missing_text" \/ fail_reason.msg = VisitMsg) =>
           /\ exit_path = "loop_missing_text"
           /\ fail_reason.msg = VisitMsg
           /\ VisitsHere >= VisitLimit
           /\ FirstAbsentIs(fail_reason.arg)
           /\ ~success
    /\ (pc = "round" /\ round_count >= 1) => ~(VisitsHere >= VisitLimit /\ SomeAbsentHere)

\* A run ended by the visit-count abort on a page visited 3+ times.
C19_Witness ==
    /\ Ended
    /\ exit_path = "loop_missing_text"
    /\ VisitsHere >= VisitLimit
    /\ run_result.reason = R(VisitMsg, "Welcome")

TypeMsg == Msg("Loop detected: typed in the same field 3+ times without progress.")

TypeBucketFullEndsTheRun ==
    /\ MaxOf(type_counts) <= TypeLimit
    /\ MaxOf(type_counts) >= TypeLimit =>
          \/ Escaped
          \/ /\ Stopping
             /\ ~success
             /\ actions[Len(actions)].round_index = round_count
             /\ actions[Len(actions)].action = "type"
             /\ IF LastSame(StreakLimit)
                THEN fail_reason = StreakMsg /\ exit_path = "streak"
                ELSE fail_reason = TypeMsg /\ exit_path = "loop_blocker"

\* A type action is being executed, without / with a coordinate.
TypeWithoutCoordinate ==
    pc = "execute" /\ action_args.action = "type" /\ action_args.coordinate = NoCoord
TypeWithCoordinate ==
    pc = "execute" /\ action_args.action = "type" /\ action_args.coordinate # NoCoord

OneRecordPerRound(list) ==
    \A i, j \in 1..Len(list) : list[i].round_index = list[j].round_index => i = j

\* C21: the ActionTrace list holds at most one record per round: no round
\* index appears in two entries, neither while the run goes on nor in the
\* list the TestRunResult returns.
C21_OneTracePerRound ==
    OneRecordPerRound(actions) /\ OneRecordPerRound(run_result.actions)

\* The task text scopes the expectation e to the URL u: a pass criterion, or
\* a verifying content step, names a URL equal to u once both are normalized
\* for comparison and quotes e.
ScopedTo(u, e) ==
    \/ \E cr \in CritsOf(test_case) :
          cr.url # None /\ Lower(cr.url) = Lower(u) /\ cr.quoted = e
    \/ \E st \in StepsOf(test_case) :
          /\ st.scoped_url # None /\ Lower(st.scoped_url) = Lower(u)
          /\ st.verify /\ st.content /\ st.quoted = e
VerifiedPairs(v) == { v[i] : i \in 1..Len(v) }

\* C22: every verified expectation (u, e) is one the task scopes to u; a
\* pair is recorded only in a step that observes the page at u with e in its
\* body text; and an auto-PASS counts a pair criterion as satisfied only by a
\* record for its own URL or by the page at its own URL showing its text.
C22_VerifiedOnlyWhereScoped ==
    [][/\ \A pair \in VerifiedPairs(verified_expectations') : ScopedTo(pair[1], pair[2])
       /\ \A pair \in VerifiedPairs(verified_expectations') \ VerifiedPairs(verified_expectations) :
             /\ pair[1] = browser'.url
             /\ TextIn(pair[2], last_page_text')
             /\ last_page_text' = browser'.text
       /\ exit_path' = "auto_pass" =>
             \A cr \in PairCrits(test_case') : Recorded(cr)' \/ OnPageNow(cr)']_vars

\* The two-text task saw the page that holds "Welcome" but not "Thanks":
\* only the first of the two texts scoped to the URL is recorded.
C22_Witness ==
    /\ test_case = TaskTwoTexts
    /\ pc = "round"
    /\ round_count = 1
    /\ browser.url = U_DONE
    /\ verified_expectations = << <<U_DONE, "Welcome">> >>

\* The sequence s is an initial part of the sequence t.
IsPrefix(s, t) == Len(s) <= Len(t) /\ \A i \in 1..Len(s) : s[i] = t[i]
NoDuplicates(s) == \A i, j \in 1..Len(s) : s[i] = s[j] => i = j

\* C23: in every step of a run the list of verified expectations keeps the
\* pairs it had, in place and unchanged, and no (url, text) pair is in the
\* list twice.
C23_VerifiedOnlyGrows ==
    [][/\ IsPrefix(verified_expectations, verified_expectations')
       /\ NoDuplicates(verified_expectations')]_vars

\* A page whose scoped text was already recorded has been observed once
\* more, after an action that left the URL unchanged: still one record.
C23_Witness ==
    /\ pc = "round"
    /\ round_count >= 2
    /\ browser.url = U_DONE
    /\ before_url_norm = U_DONE
    /\ TextIn("Welcome", last_page_text)
    /\ verified_expectations = << <<U_DONE, "Welcome">> >>

\* The transition the round being observed would record.
RoundTransition ==
    [from |-> before_url_norm, to |-> NormalizeForCompare(browser.url),
     action |-> action_args.action, clicked_text |-> action_args.clicked_text]

\* C24: the transition list never holds more than 20 entries and every entry
\* joins two different normalized URLs; the list changes only in the
\* observation of a round whose action changed the normalized URL, by the
\* round's transition being put at the end, the oldest entry being dropped
\* when the list was full and all others keeping their order.
C24_TransitionsAreARingOfTwenty ==
    [][/\ Len(transitions') <= TransitionCap
       /\ \A i \in 1..Len(transitions') : transitions'[i].from # transitions'[i].to
       /\ transitions' # transitions =>
             /\ pc = "observe"
             /\ RoundTransition.from # RoundTransition.to
             /\ transitions' =
                    IF Len(transitions) < TransitionCap
                    THEN Append(transitions, RoundTransition)
                    ELSE Append(Tail(transitions), RoundTransition)
       /\ (pc = "observe" /\ pc' \in {"round", "finish"}
             /\ RoundTransition.from # RoundTransition.to) =>
             transitions'[Len(transitions')] = RoundTransition]_vars

\* The run started on the login page, so the first transition ever recorded
\* left that page: here the list is full and its oldest entry leaves the
\* other page, the first one has been dropped.
C24_Witness ==
    /\ Len(transitions) = TransitionCap
    /\ transitions[1].from = U_DONE
    /\ round_count > TransitionCap

\* The runs inside "async with semaphore".
InFlight == { i \in DOMAIN pool_runs : pool_runs[i].pc \in {"acquired", "running"} }
\* The runs that hold an agent, and whether agent a belongs to run i.
WithAgent == { i \in DOMAIN pool_runs : pool_runs[i].agent # NoAgent }

\* C25: with max_workers = N at most N runs are in flight; the runs that have
\* an agent have different agents; a step changes the state of at most one
\* agent, that of the one running run that owns it, and the record of at
\* most one run; and a run's result bears its own case and the trace count
\* of its own agent.
C25_AtMostNRunsEachItsOwnAgent ==
    [][/\ Cardinality(InFlight') <= MaxWorkers
       /\ semaphore' = MaxWorkers - Cardinality(InFlight')
       /\ \A i, j \in WithAgent' : pool_runs'[i].agent = pool_runs'[j].agent => i = j
       /\ \A a \in DOMAIN agents :
             agents'[a] # agents[a] =>
                 /\ \E i \in InFlight : pool_runs[i].agent = a /\ pool_runs[i].pc = "running"
                 /\ \A b \in DOMAIN agents : b # a => agents'[b] = agents[b]
       /\ \A i, j \in DOMAIN pool_runs :
             (pool_runs'[i] # pool_runs[i] /\ pool_runs'[j] # pool_runs[j]) => i = j
       /\ \A i \in DOMAIN pool_runs' :
             pool_runs'[i].pc = "done" =>
                 /\ pool_runs'[i].result.case = PoolCases[i].id
                 /\ pool_runs'[i].result.traces \in
                        {0} \cup { agents'[a].traces : a \in {pool_runs'[i].agent} \ {NoAgent} }]_vars

\* Two runs are at work, each with rounds made by its own agent, while the
\* third waits for a permit.
C25_Witness ==
    /\ Cardinality(InFlight) = MaxWorkers
    /\ \E i \in DOMAIN pool_runs : pool_runs[i].pc = "created"
    /\ \E i, j \in InFlight :
          /\ i # j
          /\ pool_runs[i].pc = "running" /\ pool_runs[j].pc = "running"
          /\ agents[pool_runs[i].agent].round_count = 2
          /\ agents[pool_runs[j].agent].round_count = 1

\* The first n attempts of the call in progress all failed.
FailedThrough(n) == \A k \in 1..n : AttemptError(probe.outcomes[k]) # ""
CallEnded(st) == probe.state \in {st, "seen_" \o st}

\* C26: a model call makes at most 3 attempts; it returns the response of
\* its first attempt that neither failed nor came back empty; it goes on
\* only after failed attempts; and it raises, once, after exactly 3 failed
\* attempts, the error of the last one.  What the caller gets is the
\* response or that error: no failure of an earlier attempt is in it.
C26_AtMostThreeAttempts ==
    /\ probe.attempt <= CallAttempts
    /\ FailedThrough(probe.attempt - 1)
    /\ probe.state = "calling" => FailedThrough(probe.attempt) /\ probe.attempt < CallAttempts
    /\ CallEnded("returned") =>
          /\ probe.attempt >= 1
          /\ probe.value = probe.outcomes[probe.attempt]
          /\ probe.value \notin {TransportFailure, EmptyResponse}
    /\ CallEnded("raised") =>
          /\ probe.attempt = CallAttempts
          /\ FailedThrough(CallAttempts)
          /\ probe.value = AttemptError(probe.outcomes[CallAttempts])

\* A call whose first attempt failed in transport and whose second came back
\* empty has returned the response of its third attempt.
C26_Witness ==
    /\ probe.state = "seen_returned"
    /\ probe.attempt = CallAttempts
    /\ probe.outcomes[1] = TransportFailure
    /\ probe.outcomes[2] = EmptyResponse
    /\ probe.value = "resp_a"

\* No objective step yields a click-target text.
NoClickTargets == \A st \in StepsOf(test_case) : ~(st.click /\ st.quoted # None)
\* One of the last two transitions is a left_click that landed on the final URL.
RecentClickToFinal ==
    \E i \in 1..Len(transitions) :
        /\ i > Len(transitions) - FallbackWindow
        /\ transitions[i].action = "left_click"
        /\ \E fc \in FinalCrits(test_case) : transitions[i].to = Lower(fc.url)
\* The other conditions of the auto-PASS check: every pair criterion is
\* recorded or holds of the page, and the browser is at the final URL.
OtherPassConditions ==
    /\ \A cr \in PairCrits(test_case) : Recorded(cr) \/ OnPageNow(cr)
    /\ FinalCrits(test_case) # {}
    /\ \A fc \in FinalCrits(test_case) : Lower(browser.url) = Lower(fc.url)

\* C27: when no click-target text can be parsed from the objective steps, a
\* recent click-driven transition to the final URL is evidence enough: the
\* auto-PASS check fires when its other conditions hold.
C27_FallbackWithoutClickTargets ==
    (pc = "round" /\ NoClickTargets /\ OtherPassConditions /\ RecentClickToFinal) =>
        AutoPassNow.pass

\* The steps and then the criteria of the task definition the extraction was
\* called with, and whether the k-th of them owns the expectation e for the
\* URL asked for: it quotes e and the URL it references equals that URL once
\* both are normalized for comparison (a step owns an expectation only if it
\* is a verifying step about page content).
ProbeOwners == probe.test_case.objective_steps \o probe.test_case.pass_criteria
OwnerUrl(k) ==
    IF k <= Len(probe.test_case.objective_steps)
    THEN ProbeOwners[k].scoped_url ELSE ProbeOwners[k].url
Owns(k, e) ==
    /\ ProbeOwners[k].quoted = e
    /\ k <= Len(probe.test_case.objective_steps) =>
          ProbeOwners[k].verify /\ ProbeOwners[k].content
    /\ OwnerUrl(k) # None
    /\ Lower(OwnerUrl(k)) = Lower(probe.url)
FirstOwner(e) ==
    CHOOSE k \in 1..Len(ProbeOwners) : Owns(k, e) /\ \A j \in 1..(k - 1) : ~Owns(j, e)

\* C29: every expectation the extraction returns is quoted by a step or a
\* criterion that references the URL asked for; no expectation string is
\* returned twice; and the expectations come in the order of their first
\* owners.
C29_ScopedToTheUrlAndNoDuplicates ==
    probe.state = "returned" =>
        /\ \A i \in 1..Len(probe.out) : \E k \in 1..Len(ProbeOwners) : Owns(k, probe.out[i])
        /\ NoDuplicates(probe.out)
        /\ \A i, j \in 1..Len(probe.out) :
              i < j => FirstOwner(probe.out[i]) < FirstOwner(probe.out[j])

\* Asked for a URL in another letter case than the step's, with a step and a
\* criterion quoting the same text and a second criterion for another URL:
\* the one text is returned once.
C29_Witness ==
    /\ probe.state = "returned"
    /\ probe.url = U_DONE_UC
    /\ probe.test_case.objective_steps = << Step(FALSE, "Welcome", U_DONE, TRUE, TRUE) >>
    /\ probe.test_case.pass_criteria = << CritPair, Crit(U_LOGIN, "Thanks", TRUE) >>
    /\ probe.out = << "Welcome" >>

\* Equality and sum of exact quotients.
FracEq(a, b) == a.num * b.den = b.num * a.den
FracAdd(a, b) == Frac(a.num * b.den + b.num * a.den, a.den * b.den)
\* x * viewport side / image side, for axis k of the call in progress.
AxisScaled(x, k) == Frac(x * probe.viewport[k], probe.im_size[k])

\* C30: with an image size recorded each axis is scaled by its own ratio
\* (x' = x * viewportWidth / imageWidth, y' = y * viewportHeight /
\* imageHeight), so the mapping of a sum is the sum of the mappings and an
\* axis does not depend on the other coordinate; with none recorded the
\* input is returned unchanged.
C30_LinearPerAxis ==
    probe.state = "returned" =>
        IF probe.im_size = << >>
        THEN \A k \in 1..2 : probe.out_c[k] = Frac(probe.c[k], 1)
        ELSE \A k \in 1..2 :
                /\ FracEq(probe.out_c[k], AxisScaled(probe.c[k], k))
                /\ FracEq(probe.out_sum[k], FracAdd(probe.out_c[k], probe.out_d[k]))
                /\ probe.c[k] = probe.d[k] => FracEq(probe.out_c[k], probe.out_d[k])

\* A call with an image of 3 x 7 and a viewport of 10 x 5: the two axes are
\* scaled by different ratios, neither a whole number.
C30_Witness ==
    /\ probe.state = "returned"
    /\ probe.im_size = <<3, 7>>
    /\ probe.viewport = <<10, 5>>
    /\ probe.c = <<3, 7>>
    /\ probe.d = <<7, 3>>
    /\ FracEq(probe.out_c[1], Frac(10, 1))
    /\ FracEq(probe.out_c[2], Frac(5, 1))
    /\ FracEq(probe.out_d[1], Frac(70, 3))

\* ---------------------------------------------------------------------------
\* The same test case run twice (test_runner.py, run_task: a new FaraAgent per
\* call; agent.py, run_test_case: the run-scoped state is reset at its head).
\* The first run is recorded state by state; the second run is given, step by
\* step, the model responses and browser observations the first one had.
\* ---------------------------------------------------------------------------

\* The run-scoped state of the agent and of run_task.
Snapshot ==
    [ world |-> world, pc |-> pc, test_case |-> test_case, browser |-> browser,
      viewport |-> viewport, last_im_size |-> last_im_size, round_count |-> round_count,
      page_title |-> page_title, last_page_text |-> last_page_text,
      click_counts |-> click_counts, type_counts |-> type_counts,
      visit_counts |-> visit_counts, just_submitted |-> just_submitted,
      page_changed |-> page_changed,
      page_changed_since_last_action |-> page_changed_since_last_action,
      last_action_signature |-> last_action_signature,
      repeat_action_streak |-> repeat_action_streak,
      verified_expectations |-> verified_expectations, transitions |-> transitions,
      actions |-> actions, success |-> success, fail_reason |-> fail_reason,
      action_args |-> action_args, model_calls |-> model_calls,
      before_url_norm |-> before_url_norm, result |-> result, run_result |-> run_result,
      exit_path |-> exit_path, llm_error |-> llm_error,
      recent_signatures |-> recent_signatures ]

\* A new run of the recorded test case: a new agent, its state reset.
Restore(s) ==
    /\ world' = s.world
    /\ pc' = s.pc
    /\ test_case' = s.test_case
    /\ browser' = s.browser
    /\ viewport' = s.viewport
    /\ last_im_size' = s.last_im_size
    /\ round_count' = s.round_count
    /\ page_title' = s.page_title
    /\ last_page_text' = s.last_page_text
    /\ click_counts' = s.click_counts
    /\ type_counts' = s.type_counts
    /\ visit_counts' = s.visit_counts
    /\ just_submitted' = s.just_submitted
    /\ page_changed' = s.page_changed
    /\ page_changed_since_last_action' = s.page_changed_since_last_action
    /\ last_action_signature' = s.last_action_signature
    /\ repeat_action_streak' = s.repeat_action_streak
    /\ verified_expectations' = s.verified_expectations
    /\ transitions' = s.transitions
    /\ actions' = s.actions
    /\ success' = s.success
    /\ fail_reason' = s.fail_reason
    /\ action_args' = s.action_args
    /\ model_calls' = s.model_calls
    /\ before_url_norm' = s.before_url_norm
    /\ result' = s.result
    /\ run_result' = s.run_result
    /\ exit_path' = s.exit_path
    /\ llm_error' = s.llm_error
    /\ recent_signatures' = s.recent_signatures

\* What a step took from outside the agent: the page the browser shows, the
\* action parsed from the model's response, what the action returned, whether
\* the model call failed, the viewport the browser accepted, and the error
\* that was raised or the cancellation that arrived.
Observed(s) ==
    [ browser |-> s.browser, action_args |-> s.action_args, result |-> s.result,
      llm_error |-> s.llm_error, viewport |-> s.viewport,
      raised |-> IF s.pc \in {"raised", "cancelled"} THEN << s.pc, s.fail_reason >> ELSE << >> ]

\* The rounds a repeated test case may take.
ReplayRounds == 2
TaskReplay == Task("replay", <<StepClickConfirm>>, <<CritPair, CritFinal>>, FALSE, ReplayRounds)
ReplayTasks == {TaskReplay, TaskSkipped}
\* Two pages; a model that clicks, types, goes back, ends the run, names an
\* action outside the allow-list or answers without a tool call.
ReplayChoices ==
    { Click(CoordA, NoPixels), TypeAt(CoordA, FALSE), Plain("history_back"),
      Terminate("success", "goal reached"), Plain("double_click"), NoAction }
ReplayWorld == World({LoginPage, Page(U_DONE, "Done", {"Welcome"}, FALSE)}, {LoginPage},
                     ReplayChoices, BOOLEAN)

InitReplay ==
    /\ probe = NoProbe
    /\ PoolIdle
    /\ RunInit(ReplayWorld, ReplayTasks)
    /\ replay = [run |-> 1, tape |-> << Snapshot >>, pos |-> 1]

\* One step of run_task / run_test_case, whichever it is.
RunStep ==
    \/ RunSkipped
    \/ Start
    \/ BeginRound
    \/ LoopExit
    \/ Invoke
    \/ Repair
    \/ Dispatch
    \/ Execute
    \/ Observe
    \/ Finish
    \/ RunTaskExcept
    \/ Cancel

\* A step of the first run; the state it leads to is recorded.
FirstRun ==
    /\ replay.run = 1
    /\ RunStep
    /\ replay' = [replay EXCEPT !.tape = Append(@, Snapshot'), !.pos = @ + 1]

\* The first run has returned: run_task is called again with the same test case.
SecondRunStarts ==
    /\ replay.run = 1
    /\ pc \in {"done", "cancelled"}
    /\ Restore(replay.tape[1])
    /\ replay' = [replay EXCEPT !.run = 2, !.pos = 1]
    /\ UNCHANGED << probe, poolvars >>

\* A step of the second run: the model and the browser answer as they did at
\* this step of the first run.
SecondRun ==
    /\ replay.run = 2
    /\ replay.pos < Len(replay.tape)
    /\ RunStep
    /\ Observed(Snapshot') = Observed(replay.tape[replay.pos + 1])
    /\ replay' = [replay EXCEPT !.pos = @ + 1]

NextReplay ==
    \/ FirstRun
    \/ SecondRunStarts
    \/ SecondRun

SpecReplay == InitReplay /\ [][NextReplay]_vars

\* C28: the control loop is deterministic. A second run of the same test case
\* that is given, step by step, the model responses and the browser
\* observations (page with its URL, title and body text, action results,
\* raised errors) of the first run is, after every step, in the state the first
\* run was in after that step: the same round, the same success flag, the
\* same reason, the same traced actions and results, and in the end the same
\* TestRunResult.
RunOutcome(s) ==
    [ pc |-> s.pc, round_count |-> s.round_count, success |-> s.success,
      fail_reason |-> s.fail_reason, actions |-> s.actions, run_result |-> s.run_result ]

Val(t, n) == [t |-> t, n |-> n]
Absent == Val("absent", 0)
PyNone == Val("none", 0)
PyStr(n) == Val("str", n)
PyList(n) == Val("list", n)
PyInt(n) == Val("int", n)
PyDict(n) == Val("dict", n)

\* data.get(key)
DataGet(v) == IF v.t = "absent" THEN PyNone ELSE v
\* data.get(key, default)
GetDefault(v, default) == IF v.t = "absent" THEN default ELSE v
\* bool(value)
Truthy(v) == v.t \notin {"absent", "none"} /\ v.n # 0
\* a or b
Or(a, b) == IF Truthy(a) THEN a ELSE b

\* _as_list: a TaskLoadError for anything but None, a list or a string.
AsListRaises(v) == v.t \notin {"none", "list", "str"}
\* len(_as_list(value))
AsListLen(v) == IF v.t = "list" THEN v.n ELSE IF v.t = "str" THEN 1 ELSE 0
\* _as_set: a TaskLoadError for anything but None, a list, set, tuple or string.
AsSetRaises(v) == v.t \notin {"none", "list", "str"}
\* int(value): a TypeError for None, a list or a dict, a ValueError for a
\* string that is not a numeral.
IntRaises(v) == v.t # "int"
IntError(v) == IF v.t = "str" THEN "ValueError" ELSE "TypeError"

\* _parse_task: "TestCase" when it returns one, else the exception it raises.
ParseTask(data) ==
    LET objective == Or(Or(DataGet(data.objective), DataGet(data.task)), PyStr(0))
        steps == Or(DataGet(data.objective_steps), DataGet(data.steps))
        pass_criteria == Or(DataGet(data.pass_criteria), DataGet(data.pass))
        fail_criteria == Or(DataGet(data.fail_criteria), DataGet(data.fail))
        credentials == Or(DataGet(data.credentials), PyDict(0))
        retry_count == GetDefault(data.retry_count, PyInt(0))
        priority == GetDefault(data.priority, PyInt(5))
    IN  IF ~Truthy(objective) THEN "TaskValidationError"
        ELSE IF AsListRaises(steps) THEN "TaskLoadError"
        ELSE IF AsListRaises(pass_criteria) THEN "TaskLoadError"
        ELSE IF AsListRaises(fail_criteria) THEN "TaskLoadError"
        ELSE IF AsListLen(pass_criteria) = 0 THEN "TaskValidationError"
        ELSE IF AsListLen(fail_criteria) = 0 THEN "TaskValidationError"
        ELSE IF Truthy(credentials) /\ credentials.t # "dict" THEN "TaskValidationError"
        ELSE IF AsSetRaises(DataGet(data.tags)) THEN "TaskLoadError"
        ELSE IF IntRaises(retry_count) THEN IntError(retry_count)
        ELSE IF IntRaises(priority) THEN IntError(priority)
        ELSE "TestCase"

\* One check of validate_task: the message when the condition holds.
ErrorIf(cond, message) == IF cond THEN << message >> ELSE << >>

\* "Missing ..." for a falsy value, "... must be a string or list" for a
\* value of another type.
RequiredStrOrList(v, name) ==
    IF ~Truthy(v) THEN << "Missing required field: " \o name >>
    ELSE ErrorIf(v.t \notin {"str", "list"}, name \o " must be a string or list")

\* objective_steps: "Missing ..." when neither key gives a value.
StepsRequired(v) ==
    IF v.t = "none" THEN << "Missing required field: objective_steps" >>
    ELSE ErrorIf(v.t \notin {"str", "list"}, "objective_steps must be a string or list")

\* int(value) inside try/except, then the range check.
IntInRange(v, name, lo, hi, range_message) ==
    IF v.t = "none" THEN << >>
    ELSE IF IntRaises(v) THEN << name \o " must be an integer" >>
    ELSE ErrorIf(v.n < lo \/ v.n > hi, range_message)

\* No upper limit.
Unbounded == 1000

\* validate_task: the list of messages it returns.
ValidateTask(data) ==
    ErrorIf(~Truthy(DataGet(data.objective)) /\ ~Truthy(DataGet(data.task)),
            "Missing required field: objective")
    \o RequiredStrOrList(Or(DataGet(data.pass_criteria), DataGet(data.pass)), "pass_criteria")
    \o RequiredStrOrList(Or(DataGet(data.fail_criteria), DataGet(data.fail)), "fail_criteria")
    \o StepsRequired(Or(DataGet(data.objective_steps), DataGet(data.steps)))
    \o ErrorIf(DataGet(data.credentials).t \notin {"none", "dict"}, "credentials must be a dictionary")
    \o IntInRange(DataGet(data.max_rounds), "max_rounds", 1, Unbounded, "max_rounds must be at least 1")
    \o ErrorIf(DataGet(data.tags).t \notin {"none", "str", "list"}, "tags must be a string or list")
    \o IntInRange(DataGet(data.retry_count), "retry_count", 0, Unbounded, "retry_count cannot be negative")
    \o IntInRange(DataGet(data.priority), "priority", 1, 10, "priority must be between 1 and 10")

\* The mapping of the unit tests: objective, pass_criteria and fail_criteria.
MinimalTask ==
    [objective |-> PyStr(4), task |-> Absent,
     pass_criteria |-> PyList(1), pass |-> Absent,
     fail_criteria |-> PyList(1), fail |-> Absent,
     objective_steps |-> Absent, steps |-> Absent,
     credentials |-> Absent, max_rounds |-> Absent, tags |-> Absent,
     retry_count |-> Absent, priority |-> Absent]

\* Mappings that differ from the minimal one in the required fields, and
\* mappings that differ from it in the optional ones.
RequiredVariants ==
    { [MinimalTask EXCEPT !.objective = o, !.task = t, !.pass_criteria = p, !.pass = p2,
                          !.fail_criteria = f, !.fail = f2, !.objective_steps = s, !.steps = s2] :
        o \in {Absent, PyStr(0), PyStr(4)}, t \in {Absent, PyStr(4)},
        p \in {Absent, PyStr(4), PyList(0), PyList(1), PyInt(3)}, p2 \in {Absent, PyStr(0), PyList(1)},
        f \in {Absent, PyList(1), PyDict(1)}, f2 \in {Absent, PyStr(4)},
        s \in {Absent, PyNone, PyList(0), PyList(2), PyInt(3)}, s2 \in {Absent, PyStr(4)} }
OptionalVariants ==
    { [MinimalTask EXCEPT !.objective_steps = s, !.credentials = c, !.max_rounds = m, !.tags = g,
                          !.retry_count = r, !.priority = p] :
        s \in {Absent, PyList(2)},
        c \in {Absent, PyDict(0), PyDict(1), PyStr(4)},
        m \in {Absent, PyInt(0), PyInt(3), PyStr(4)},
        g \in {Absent, PyList(1), PyDict(1)},
        r \in {Absent, PyNone, PyInt(-1), PyInt(2), PyStr(4)},
        p \in {Absent, PyInt(0), PyInt(5), PyInt(11), PyList(1)} }
ProbeTasks == RequiredVariants \cup OptionalVariants

TaskCall(data, st, parsed, errors) ==
    [fn |-> "validate_task", data |-> data, state |-> st, parsed |-> parsed, errors |-> errors]

InitValidate ==
    /\ probe \in { TaskCall(d, "called", None, << >>) : d \in ProbeTasks }
    /\ PoolIdle
    /\ RunInit(RingWorld, {TaskSkipped})
    /\ replay = NoReplay

\* Both functions are applied to the mapping.
ValidateReturn ==
    /\ probe.state = "called"
    /\ probe' = [probe EXCEPT !.state = "returned",
                              !.parsed = ParseTask(probe.data),
                              !.errors = ValidateTask(probe.data)]
    /\ UNCHANGED << poolvars, replay, runvars >>

NextValidate == ValidateReturn

SpecValidate == InitValidate /\ [][NextValidate]_vars

\* C31: validate_task returns no error for the mapping that has a non-empty
\* objective, a pass_criteria list and a fail_criteria list and nothing else,
\* and for any mapping that _parse_task accepts.
Returned == probe.fn = "validate_task" /\ probe.state = "returned"
C31_AcceptedTasksValidate ==
    Returned =>
        /\ probe.data = MinimalTask => probe.errors = << >>
        /\ probe.parsed = "TestCase" => probe.errors = << >>

\* C32: at the head of a round the scoped-text-missing FAIL check comes before
\* the auto-PASS check, and both before the model call: when the FAIL check
\* fires the round ends the run with success = FALSE whether or not the
\* auto-PASS conditions hold; when the FAIL check does not fire and the
\* auto-PASS check does, the round ends the run with success = TRUE; in both
\* cases the model is not called and the browser is left as it is, and the
\* round's only trace is the auto_terminate record.
RoundHead == pc = "round" /\ round_count < test_case.max_rounds
TextFires ==
    CheckTextExpectations(test_case, browser.url, last_page_text,
                          page_changed_since_last_action) # NoReason
AutoFires ==
    CheckAutoPass(test_case, browser.url, verified_expectations, last_page_text, transitions).pass

C32_FailCheckThenPassCheckThenModel ==
    [][ RoundHead =>
          /\ TextFires => ~success' /\ exit_path' = "text_expectations" /\ pc' = "finish"
          /\ (~TextFires /\ AutoFires) => success' /\ exit_path' = "auto_pass" /\ pc' = "finish"
          /\ (~TextFires /\ ~AutoFires) => pc' \in {"invoke", "cancelled"}
          /\ (TextFires \/ AutoFires) =>
                /\ model_calls' = 0
                /\ browser' = browser
                /\ actions' = Append(actions, actions'[Len(actions')])
                /\ actions'[Len(actions')].action = "auto_terminate"
                /\ \A i \in 1..Len(actions) : actions[i].round_index # round_count'
      ]_vars

\* The FAIL check has ended a run at a round head where the auto-PASS
\* conditions held as well.
C32_Witness ==
    /\ pc = "finish"
    /\ exit_path = "text_expectations"
    /\ ~success
    /\ CheckAutoPass(test_case, browser.url, verified_expectations, last_page_text, transitions).pass

\* C33: the "page changed" and "just submitted" hints are one-shot. When the
\* context of a round is built, the page-changed hint is in it exactly when
\* the action of the round before changed the normalized URL, and the
\* just-submitted hint exactly when that action was a click on a submit-like
\* label or a type with Enter; in the first round neither is. Once a valid
\* action has been parsed in the round, both flags are cleared.
SetsSubmitted(args, res) ==
    /\ res.msg # "Action failed: {}"
    /\ \/ args.action = "type" /\ args.press_enter
       \/ args.action = "left_click" /\ SubmitLabel(args.label)
ContextBuilt == pc = "invoke" /\ model_calls = 0
HintsFromLastAction ==
    ContextBuilt =>
        /\ page_changed =
              (round_count > 1 /\ NormalizeForCompare(browser.url) # before_url_norm)
        /\ just_submitted = (round_count > 1 /\ SetsSubmitted(action_args, result))

LoginMsg == "Still on login page; fail criteria mention login."
C34_LoginVerdictNotAfterFirstType ==
    ~ /\ test_case.fail_login
      /\ exit_path = "auto_verdict"
      /\ fail_reason.msg = LoginMsg
      /\ round_count = 1
      /\ action_args.action = "type"
      /\ ~action_args.press_enter
      /\ NormalizeForCompare(browser.url) = NormalizeForCompare(test_case.start_url)

\* C35: no run ends with success = TRUE while the page last observed is an
\* error page (an error term in its URL or title, or 404 / not found in its
\* body text), the page of the initial navigation included.
ErrorPageShown ==
    \/ HasErrorTerm(Lower(browser.url))
    \/ HasErrorTerm(Lower(page_title))
    \/ last_page_text.notfound
C35_NoPassOnErrorPage ==
    (pc \in {"finish", "done"} /\ success) => ~ErrorPageShown

\* C36: at every round head the visit counter of a normalized URL is the
\* number of arrivals at it: one for the initial load of start_url, plus one
\* for every action that brought the browser to that URL from another one
\* (the transitions on record); an action without navigation adds nothing.
Arrivals(u) ==
    (IF u = NormalizeForCompare(test_case.start_url) THEN 1 ELSE 0)
    + Cardinality({ i \in 1..Len(transitions) : transitions[i].to = u })
C36_VisitCountsAreArrivals ==
    pc = "round" =>
        \A u \in { NormalizeForCompare(v) : v \in URLS } : Get(visit_counts, u) = Arrivals(u)

\* C37: whatever the arguments of an allowed action, run_test_case does not
\* raise because of them: an exception leaves it only when the browser failed
\* (the navigation or a screenshot).
BrowserFailures == {"Navigation failed", "Screenshot failed"}
C37_NoRaiseFromArguments ==
    pc = "raised" => fail_reason.arg \in BrowserFailures

\* C38: the reason of a TestRunResult with success = TRUE is the reason that
\* produced the pass: the evidence reason of the auto-pass check, or the
\* reason of the model's terminate action.
C38_PassReasonIsKept ==
    (pc = "done" /\ run_result.success) =>
        /\ exit_path \in {"auto_pass", "terminate"}
        /\ run_result.reason = fail_reason
        /\ exit_path = "terminate" => run_result.reason = TerminateReason(action_args)

\* ---------------------------------------------------------------------------
\* mcp_server.py: run_task, its worker task, the done callback and cancel_run.
\* One event loop runs them: a step is what runs between two awaits.
\* ---------------------------------------------------------------------------

\* The runs a client asks for.
McpRuns == 2
McpRunIds == 1..McpRuns

\* RunRecord: status, success (None until the run has ended) and reason;
\* status "none" stands for a record not yet made.
RunRecord(status, ok, why) == [status |-> status, success |-> ok, reason |-> why]
NoRecord == RunRecord("none", None, None)
\* The asyncio task of a run: where its coroutine stands ("waiting" for the
\* semaphore, "running" the worker, "done") and whether cancel() was called
\* on it and the CancelledError is still to be thrown.
McpTask(at, must_cancel) == [at |-> at, must_cancel |-> must_cancel]
NoTask == McpTask("none", FALSE)

\* E2EMCPServer.__init__: an empty run index, no active task, Semaphore(1).
InitMcp ==
    /\ mcp = [records |-> [i \in McpRunIds |-> NoRecord],
              tasks |-> [i \in McpRunIds |-> NoTask],
              active |-> {},
              permits |-> 1]
    /\ semaphore = 0
    /\ pool_runs = << >>
    /\ agents = << >>
    /\ final_results = << >>
    /\ RunInit(RingWorld, {TaskSkipped})
    /\ replay = NoReplay
    /\ probe = NoProbe

\* _run_task: the record is made and indexed, the task created and registered.
McpRunTask(i) ==
    /\ mcp.records[i].status = "none"
    /\ mcp' = [mcp EXCEPT !.records[i] = RunRecord("queued", None, None),
                          !.tasks[i] = McpTask("waiting", FALSE),
                          !.active = @ \cup {i}]

\* wrapped_worker enters the semaphore and worker runs up to its first await.
McpWorkerStart(i) ==
    /\ mcp.tasks[i] = McpTask("waiting", FALSE)
    /\ mcp.permits > 0
    /\ mcp' = [mcp EXCEPT !.permits = @ - 1,
                          !.records[i].status = "running",
                          !.tasks[i].at = "running"]

\* What the worker writes into the record when run_task_with_retries has
\* returned, or when it or a reporter raised an Exception.
WorkerOutcomes ==
    { RunRecord("passed", "True", "Completed successfully."),
      RunRecord("failed", "False", "Max rounds reached."),
      RunRecord("error", "False", "exception") }

\* The worker is resumed with the outcome of the run, writes the record and
\* returns; the semaphore is released and the task is done.
McpWorkerReturn(i) ==
    /\ mcp.tasks[i] = McpTask("running", FALSE)
    /\ \E outcome \in WorkerOutcomes :
         mcp' = [mcp EXCEPT !.records[i] = outcome,
                            !.permits = @ + 1,
                            !.tasks[i].at = "done"]

\* The task is resumed after cancel(): CancelledError is thrown into it, which
\* "except Exception" does not catch; a running worker releases the semaphore.
McpCancelled(i) ==
    /\ mcp.tasks[i].must_cancel
    /\ mcp.tasks[i].at \in {"waiting", "running"}
    /\ mcp' = [mcp EXCEPT !.permits = IF mcp.tasks[i].at = "running" THEN @ + 1 ELSE @,
                          !.tasks[i] = McpTask("done", FALSE)]

\* The done callback of the task, which the loop calls after the task's last step.
McpDoneCallback(i) ==
    /\ mcp.tasks[i].at = "done"
    /\ i \in mcp.active
    /\ mcp' = [mcp EXCEPT !.active = @ \ {i}]

\* _cancel_run goes on to cancel the task and to write the record when the
\* run is still among the active tasks (else it answers "Not running").
CancelApplies(server, i) == i \in server.active

\* _cancel_run for a run that is in the index.
McpCancelRun(i) ==
    /\ mcp.records[i].status # "none"
    /\ CancelApplies(mcp, i)
    /\ mcp' = [mcp EXCEPT !.tasks[i].must_cancel = (mcp.tasks[i].at # "done"),
                          !.records[i] = RunRecord("error", "False", "Cancelled")]

\* What the server does not touch.
mcpframe == << probe, replay, semaphore, pool_runs, agents, final_results, runvars >>

NextMcp ==
    \/ \E i \in McpRunIds : McpRunTask(i) /\ UNCHANGED mcpframe
    \/ \E i \in McpRunIds : McpWorkerStart(i) /\ UNCHANGED mcpframe
    \/ \E i \in McpRunIds : McpWorkerReturn(i) /\ UNCHANGED mcpframe
    \/ \E i \in McpRunIds : McpCancelled(i) /\ UNCHANGED mcpframe
    \/ \E i \in McpRunIds : McpDoneCallback(i) /\ UNCHANGED mcpframe
    \/ \E i \in McpRunIds : McpCancelRun(i) /\ UNCHANGED mcpframe

SpecMcp == InitMcp /\ [][NextMcp]_vars

\* C39: a run record moves only queued -> running -> passed, failed or error,
\* or from queued or running to error on cancel; once it is passed or failed,
\* nothing changes its status, success flag or reason.
RecordMoves ==
    { <<"none", "queued">>, <<"queued", "running">>, <<"running", "passed">>,
      <<"running", "failed">>, <<"running", "error">>, <<"queued", "error">> }
C39_RecordsMoveForwardOnly ==
    [][ \A i \in McpRunIds :
          /\ mcp'.records[i].status # mcp.records[i].status =>
                << mcp.records[i].status, mcp'.records[i].status >> \in RecordMoves
          /\ mcp.records[i].status \in {"passed", "failed"} => mcp'.records[i] = mcp.records[i]
      ]_vars

\* ---------------------------------------------------------------------------
\* test_runner.py: run_task_with_retries, run on its own.
\* ---------------------------------------------------------------------------

\* The largest retry_count of a test case handed to it.
MaxRetries == 3

\* What one run_task call gives: a passing result, a failing one, or the
\* result its except clause makes of an exception.
AttemptResults == {"passed", "failed", "crashed"}
\* The TestRunResult of an attempt: run_task sets retry_attempt from its argument.
AttemptResult(kind, retry_attempt, agent) ==
    [success |-> kind = "passed",
     reason |-> IF kind = "crashed" THEN "Runner exception: {}" ELSE kind,
     retry_attempt |-> retry_attempt, agent |-> agent]
NoAttemptResult == AttemptResult(None, -1, NoAgent)

RetryCall(retry_count, attempt, st, made, open, results, last_result, returned) ==
    [fn |-> "run_task_with_retries", retry_count |-> retry_count, attempt |-> attempt,
     state |-> st, made |-> made, open |-> open, results |-> results,
     last_result |-> last_result, returned |-> returned]

InitRetries ==
    /\ probe \in { RetryCall(n, 0, "loop", << >>, {}, << >>, NoAttemptResult, NoAttemptResult) :
                      n \in 0..MaxRetries }
    /\ PoolIdle
    /\ RunInit(RingWorld, {TaskSkipped})
    /\ replay = NoReplay

RetryAttemptsOneMore(retry_count) == retry_count + 2
\* for attempt in range(retry_count + 1)
RetryAttempts(retry_count) == retry_count + 1

\* The loop calls run_task, which constructs the agent of the attempt.
RetryAttemptStart ==
    /\ probe.fn = "run_task_with_retries"
    /\ probe.state = "loop"
    /\ probe.attempt < RetryAttempts(probe.retry_count)
    /\ LET agent == NewAgentId(probe.made)
       IN  probe' = [probe EXCEPT !.state = "attempt",
                                  !.made = Append(@, agent),
                                  !.open = @ \cup {agent}]
    /\ UNCHANGED << poolvars, replay, runvars >>

\* run_task returns: the agent is closed in its finally clause; the result is
\* kept as last_result and returned at once when it is a success.
RetryAttemptEnd ==
    /\ probe.fn = "run_task_with_retries"
    /\ probe.state = "attempt"
    /\ \E kind \in AttemptResults :
         LET agent == probe.made[Len(probe.made)]
             res == AttemptResult(kind, probe.attempt, agent)
         IN  probe' = [probe EXCEPT !.open = @ \ {agent},
                                    !.results = Append(@, res),
                                    !.last_result = res,
                                    !.returned = IF res.success THEN res ELSE @,
                                    !.state = IF res.success THEN "returned" ELSE "loop",
                                    !.attempt = IF res.success THEN @ ELSE @ + 1]
    /\ UNCHANGED << poolvars, replay, runvars >>

\* The loop is exhausted: return last_result.
RetryReturnLast ==
    /\ probe.fn = "run_task_with_retries"
    /\ probe.state = "loop"
    /\ probe.attempt >= RetryAttempts(probe.retry_count)
    /\ probe' = [probe EXCEPT !.state = "returned", !.returned = probe.last_result]
    /\ UNCHANGED << poolvars, replay, runvars >>

NextRetries ==
    \/ RetryAttemptStart
    \/ RetryAttemptEnd
    \/ RetryReturnLast

SpecRetries == InitRetries /\ [][NextRetries]_vars

\* C40: run_task_with_retries makes at most retry_count + 1 attempts, each
\* with an agent of its own that is closed when the attempt ends; it returns
\* the first successful result, else the result of the last attempt, and the
\* returned result's retry_attempt is the zero-based index of the attempt
\* that produced it.
AllDifferent(s) == \A i, j \in 1..Len(s) : i # j => s[i] # s[j]
C40_RetriesStopAtFirstSuccess ==
    probe.fn = "run_task_with_retries" =>
        /\ Len(probe.made) <= probe.retry_count + 1
        /\ AllDifferent(probe.made)
        /\ Cardinality(probe.open) <= 1
        /\ \A k \in 1..Len(probe.results) :
              /\ probe.results[k].agent = probe.made[k]
              /\ probe.results[k].agent \notin probe.open
        /\ probe.state = "returned" =>
              LET n == Len(probe.results)
              IN  /\ probe.open = {}
                  /\ n >= 1
                  /\ probe.returned = probe.results[n]
                  /\ probe.returned.retry_attempt = n - 1
                  /\ \A k \in 1..(n - 1) : ~probe.results[k].success
                  /\ ~probe.returned.success => n = probe.retry_count + 1

\* A result was returned from the third attempt, after two that failed.
C40_Witness ==
    /\ probe.fn = "run_task_with_retries"
    /\ probe.state = "returned"
    /\ probe.returned.success
    /\ probe.returned.retry_attempt = 2
    /\ probe.retry_count = 3

====
